---------------------------- MODULE Spec2Model ----------------------------
(***************************************************************************)
(* Model of RobustTuyaRoonController (src/tuya_roon_robust.py): the        *)
(* control-service session (setup_roon, robust_roon_command), the zone     *)
(* resolver (find_zone_output_id), the knob action dispatcher              *)
(* (handle_knob_action, change_volume, set_volume, toggle_playback) and    *)
(* the startup chain of run_service_mode.                                  *)
(*                                                                         *)
(* Python values are encoded as records [t, n, id] so that None, booleans, *)
(* integers and output ids can be stored in one variable.  The remote      *)
(* control service and the broker are an environment: every remote         *)
(* operation may raise or return.  Handlers run one at a time; inside a    *)
(* handler every environment outcome is its own step.                      *)
(***************************************************************************)
EXTENDS Integers, Sequences, FiniteSets, TLC

VARIABLES
    roonapi,                  \* self.roonapi: "None" | "unauthorized" | "authorized"
    zone_output_id,           \* self.zone_output_id: "None" or an output id
    roon_connection_healthy,  \* self.roon_connection_healthy
    controller_running,       \* self.controller_running
    mqtt_client,              \* self.mqtt_client: "None" | "client"
    mqtt_connected,           \* self.mqtt_connected
    config,                   \* self.config (zone_id, zone_name, volume, volume_step)
    volume,                   \* the remote output's volume percent
    main_pc,                  \* position of run_service_mode (main thread)
    handler,                  \* handler in progress: "none" | "knob" | "web_test"
    hpc,                      \* position inside that handler
    event,                    \* action tag of the knob event being handled
    current,                  \* local `current` of change_volume / api_test_volume
    delta,                    \* argument `delta` of change_volume
    rrc,                      \* frame of robust_roon_command (handle0: self.roonapi at entry)
    fz,                       \* frame of find_zone_output_id
    enumerated,               \* what command_func enumerated last: `outputs`, or `zones`
    cmdTrace,                 \* connects and executions of the running robust_roon_command
    remoteLog,                \* volume / playback operations issued by the running handler
    knob,                     \* self.knob_battery, knob_voltage, knob_linkquality, knob_last_seen
    link,                     \* the broker connection: "down" | "connecting" | "acked"
                              \* (accepted, topic not subscribed) | "up" (accepted and
                              \* subscribed) | "closing"
    cb,                       \* frame of the running transport callback
    now,                      \* time.time(), advanced by every delivered message
    ctl,                      \* the health loop's last tick and the run_controller thread
    sr                        \* frame of setup_roon's readiness poll

vars ==
    << roonapi, zone_output_id, roon_connection_healthy, controller_running,
       mqtt_client, mqtt_connected, config, volume, main_pc, handler, hpc,
       event, current, delta, rrc, fz, enumerated, cmdTrace, remoteLog,
       knob, link, cb, now, ctl, sr >>

\* the state of the transport, of the supervisor's loops and of the readiness poll
svars ==
    << knob, link, cb, now, ctl, sr >>

-----------------------------------------------------------------------------
(* Bounds of the model and constants of the program *)

\* longest display name / zone name, in characters
MaxNameLen ==
    2

\* largest volume_step a configuration carries
MaxStep ==
    7

\* messages the broker delivers (the clock of knob_last_seen)
MaxMessages ==
    2

\* max_retries of robust_roon_command
max_retries ==
    3

\* retries passed by run_service_mode to find_zone_output_id
service_retries ==
    3

\* max_wait_time of setup_roon, in seconds
max_wait_time ==
    300

\* check_interval of setup_roon, in seconds
check_interval ==
    5

\* the period of setup_roon's waiting message, in seconds
reminder_interval ==
    30

\* retries of find_zone_output_id when the caller passes none
default_retries ==
    5

\* volume set by a double press
DoubleVolume ==
    50

\* volume set by hold
HoldVolume ==
    0

Chars ==
    {"K", "D"}

Names ==
    UNION { [1..k -> Chars] : k \in 0..MaxNameLen }

OutputIds ==
    {"o1", "o2"}

\* every enumeration of at most two outputs, in either order
AllOutputLists ==
    {<<>>}
    \cup { <<[id |-> i, name |-> n]>> : i \in OutputIds, n \in Names }
    \cup UNION { { <<[id |-> i, name |-> n], [id |-> j, name |-> m]>> :
                      j \in OutputIds \ {i}, n \in Names, m \in Names } :
                    i \in OutputIds }

\* the enumerations the remote service returns in the full controller model
OutputLists ==
    { <<>>,
      <<[id |-> "o1", name |-> <<"K", "D">>], [id |-> "o2", name |-> <<"K">>]>>,
      <<[id |-> "o2", name |-> <<"K">>], [id |-> "o1", name |-> <<"D">>]>>,
      <<[id |-> "o2", name |-> <<"D">>]>> }

-----------------------------------------------------------------------------
(* Python values *)

NoneV ==
    [t |-> "None", n |-> 0, id |-> ""]

BoolV(b) ==
    [t |-> "bool", n |-> IF b THEN 1 ELSE 0, id |-> ""]

IntV(k) ==
    [t |-> "int", n |-> k, id |-> ""]

IdV(i) ==
    [t |-> "id", n |-> 0, id |-> i]

\* a Python list of k items
ListV(k) ==
    [t |-> "list", n |-> k, id |-> ""]

\* truth value of a Python value (`if result:`)
Truthy(r) ==
    CASE r.t = "None" -> FALSE
      [] r.t = "bool" -> r.n = 1
      [] r.t = "int"  -> r.n # 0
      [] r.t = "list" -> r.n # 0
      [] OTHER        -> r.id # ""

\* numeric value in arithmetic (False + delta is delta)
Num(r) ==
    r.n

Max2(a, b) ==
    IF a >= b THEN a ELSE b

Min2(a, b) ==
    IF a <= b THEN a ELSE b

\* a key the decoded payload does not carry (`'battery' in payload` is False)
Absent ==
    [t |-> "absent", n |-> 0, id |-> ""]

\* the telemetry after __init__, lines 47-50
NoKnob ==
    [battery |-> NoneV, voltage |-> NoneV, linkquality |-> NoneV, last_seen |-> NoneV]

\* no message is being handled
NoPayload ==
    [kind |-> "none", battery |-> Absent, voltage |-> Absent, linkquality |-> Absent,
     action |-> "absent"]

\* no transport callback is running; rc and reconnects belong to on_mqtt_disconnect,
\* payload and knob0 (the telemetry at entry) to on_mqtt_message
IdleCb ==
    [rc |-> 0, reconnects |-> 0, payload |-> NoPayload, knob0 |-> NoKnob]

\* the health loop has passed its test at line 1145 and sleeps at line 1146 (pc
\* "sleep"; "backoff" is the sleep of line 1151 or 1155 after a reconnect); it has not
\* ticked, no run_controller thread was started and no client has been replaced
\* (old is "connecting" when a client that setup_mqtt replaced has a reconnect
\* waiting for its acknowledgement, "up" when that client is subscribed again)
IdleCtl ==
    [pc |-> "sleep", tick |-> "none", thread |-> "none", zone |-> "none",
     old |-> "none"]

\* setup_roon is not running
IdleSr ==
    [pc |-> "idle", waited_time |-> 0, polls |-> 0, prompts |-> 0, notices |-> 0,
     offbeat |-> FALSE, ready |-> FALSE, result |-> "none"]

\* the interpreter has not exited: main() has not returned, sys.exit was not called
ProcessAlive ==
    main_pc \notin {"exited", "crashed"}

-----------------------------------------------------------------------------
(* Pure helpers of the resolver and of the dispatcher *)

\* Python `sub in s` on strings: sub occurs in s as a contiguous substring
Contains(sub, s) ==
    \E i \in 0..(Len(s) - Len(sub)) : SubSeq(s, i + 1, i + Len(sub)) = sub

\* variant of NameMatches: only the exact name matches
NameMatches_Exact(zname, display) ==
    zname = display

\* line 272: zone_name == display_name or zone_name in display_name
NameMatches(zname, display) ==
    zname = display \/ Contains(zname, display)

\* positions of `outs` whose display name matches, lines 270-274
MatchingPositions(outs, zname) ==
    { i \in 1..Len(outs) : NameMatches(zname, outs[i].name) }

\* smallest element of a non-empty set of positions (first in enumeration order)
First(S) ==
    CHOOSE i \in S : \A j \in S : i <= j

\* line 264: zone_id and zone_id in outputs
IdEnumerated(outs, zid) ==
    zid # "None" /\ \E i \in 1..Len(outs) : outs[i].id = zid

\* variant of FindZone: the name is tried before the identifier
FindZone_NameFirst(outs, zid, zname) ==
    IF zname # <<>> /\ MatchingPositions(outs, zname) # {}
      THEN IdV(outs[First(MatchingPositions(outs, zname))].id)
      ELSE IF IdEnumerated(outs, zid) THEN IdV(zid) ELSE NoneV

\* _find_zone on the enumeration `outs`, lines 261-281
FindZone(outs, zid, zname) ==
    IF IdEnumerated(outs, zid)
      THEN IdV(zid)
      ELSE IF zname # <<>> /\ MatchingPositions(outs, zname) # {}
             THEN IdV(outs[First(MatchingPositions(outs, zname))].id)
             ELSE NoneV

\* max(0, min(100, v)), lines 343 and 358
Clamp(v) ==
    Max2(0, Min2(100, v))

\* variant of SetVolumeClamp: the upper limit is missing
SetVolumeClamp_NoUpper(v) ==
    Max2(0, v)

\* the clamp of _set_volume, line 343
SetVolumeClamp(v) ==
    Clamp(v)

\* the new volume of change_volume, line 358
NewVolume(cur, d) ==
    Clamp(Num(cur) + d)

\* variant of VolumeKnown: the None check is missing
VolumeKnown_Unchecked(cur) ==
    TRUE

\* line 357: current is not None
VolumeKnown(cur) ==
    cur.t # "None"

\* test volume of api_test_volume
TestVolume(cur) ==
    IF Num(cur) > 50 THEN 25 ELSE 75

-----------------------------------------------------------------------------
(* The remote control service *)

\* the group enumerations the remote service returns
GroupLists ==
    { <<>>,
      <<[id |-> "z1", state |-> "playing", outs |-> {"o1"}]>>,
      <<[id |-> "z1", state |-> "paused", outs |-> {"o2"}],
        [id |-> "z2", state |-> "playing", outs |-> {"o1", "o2"}]>>,
      <<[id |-> "z1", state |-> "stopped", outs |-> {"o1", "o2"}],
        [id |-> "z2", state |-> "paused", outs |-> {"o1", "o2"}]>>,
      <<[id |-> "z1", state |-> "loading", outs |-> {"o1", "o2"}]>> }

\* one entry of remoteLog: a remote operation, its arguments and whether it returned
LogEntry(op, id, n, verb, ok) ==
    [op |-> op, id |-> id, n |-> n, verb |-> verb, ok |-> ok]

\* outcome of one execution of command_func
Outcome(raised, result, vol, log, enum) ==
    [raised |-> raised, result |-> result, volume |-> vol, log |-> log, enum |-> enum]

\* command_func raised
Raised ==
    Outcome(TRUE, NoneV, volume, <<>>, enumerated)

\* _find_zone, lines 257-281: the enumeration raises, or the match on what it returned
FindZoneCmd ==
    IF roonapi = "None"
      THEN { Outcome(FALSE, NoneV, volume, <<>>, enumerated) }
      ELSE { Raised }
           \cup { Outcome(FALSE, FindZone(L, fz.zone_id, fz.zone_name), volume, <<>>, L) :
                    L \in OutputLists }

\* _get_volume, lines 323-332: the value, None, or None after a swallowed exception
GetVolumeCmd ==
    IF zone_output_id = "None" \/ roonapi = "None"
      THEN { Outcome(FALSE, NoneV, volume, <<>>, enumerated) }
      ELSE { Outcome(FALSE, IntV(volume), volume,
                     <<LogEntry("get_volume_percent", zone_output_id, volume, "", TRUE)>>,
                     enumerated),
             Outcome(FALSE, NoneV, volume,
                     <<LogEntry("get_volume_percent", zone_output_id, -1, "", TRUE)>>,
                     enumerated),
             Outcome(FALSE, NoneV, volume,
                     <<LogEntry("get_volume_percent", zone_output_id, -1, "", FALSE)>>,
                     enumerated) }

\* variant of SetVolumeCmd: the exception of set_volume_percent is not caught
SetVolumeCmd_Propagates(v) ==
    IF zone_output_id = "None" \/ roonapi = "None"
      THEN { Outcome(FALSE, BoolV(FALSE), volume, <<>>, enumerated) }
      ELSE { Outcome(FALSE, BoolV(TRUE), SetVolumeClamp(v),
                     <<LogEntry("set_volume_percent", zone_output_id,
                                SetVolumeClamp(v), "", TRUE)>>,
                     enumerated),
             Outcome(TRUE, NoneV, volume,
                     <<LogEntry("set_volume_percent", zone_output_id,
                                SetVolumeClamp(v), "", FALSE)>>,
                     enumerated) }

\* _set_volume, lines 338-350: True, or False after a swallowed exception
SetVolumeCmd(v) ==
    IF zone_output_id = "None" \/ roonapi = "None"
      THEN { Outcome(FALSE, BoolV(FALSE), volume, <<>>, enumerated) }
      ELSE { Outcome(FALSE, BoolV(TRUE), SetVolumeClamp(v),
                     <<LogEntry("set_volume_percent", zone_output_id,
                                SetVolumeClamp(v), "", TRUE)>>,
                     enumerated),
             Outcome(FALSE, BoolV(FALSE), volume,
                     <<LogEntry("set_volume_percent", zone_output_id,
                                SetVolumeClamp(v), "", FALSE)>>,
                     enumerated) }

\* groups of the enumeration that contain the bound output, lines 375-382
ContainingGroups(groups) ==
    { i \in 1..Len(groups) : zone_output_id \in groups[i].outs }

\* a variant that pauses in every state but paused
PrimaryVerb_PauseUnlessPaused(state) ==
    IF state = "paused" THEN "play" ELSE "pause"

\* lines 389-400: pause if playing, play otherwise
PrimaryVerb(state) ==
    IF state = "playing" THEN "pause" ELSE "play"

\* a variant without the playpause fallback of lines 405-407
ToggleOn_NoFallback(groups) ==
    IF ContainingGroups(groups) = {}
      THEN { Outcome(FALSE, BoolV(FALSE), volume, <<>>, groups) }
      ELSE LET g == groups[First(ContainingGroups(groups))]
               p(ok) == LogEntry("playback_control", g.id, 0, PrimaryVerb(g.state), ok)
           IN  { Outcome(FALSE, BoolV(TRUE), volume, <<p(TRUE)>>, groups),
                 Outcome(FALSE, BoolV(FALSE), volume, <<p(FALSE)>>, groups) }

\* lines 384-414 on the enumeration `groups`
ToggleOn(groups) ==
    IF ContainingGroups(groups) = {}
      THEN { Outcome(FALSE, BoolV(FALSE), volume, <<>>, groups) }
      ELSE LET g == groups[First(ContainingGroups(groups))]
               p(ok) == LogEntry("playback_control", g.id, 0, PrimaryVerb(g.state), ok)
               f(ok) == LogEntry("playback_control", g.id, 0, "playpause", ok)
           IN  { Outcome(FALSE, BoolV(TRUE), volume, <<p(TRUE)>>, groups),
                 Outcome(FALSE, BoolV(TRUE), volume, <<p(FALSE), f(TRUE)>>, groups),
                 Outcome(FALSE, BoolV(FALSE), volume, <<p(FALSE), f(FALSE)>>, groups) }

\* _toggle_playback, lines 366-414
TogglePlaybackCmd ==
    IF zone_output_id = "None" \/ roonapi = "None"
      THEN { Outcome(FALSE, BoolV(FALSE), volume, <<>>, enumerated) }
      ELSE { Raised } \cup UNION { ToggleOn(g) : g \in GroupLists }

\* _get_zones, lines 303-316: the enumeration raises, or one item per output
GetZonesCmd ==
    IF roonapi = "None"
      THEN { Outcome(FALSE, ListV(0), volume, <<>>, enumerated) }
      ELSE { Raised }
           \cup { Outcome(FALSE, ListV(Len(L)), volume, <<>>, L) : L \in OutputLists }

Ops ==
    {"_find_zone", "_get_zones", "_get_volume", "_set_volume", "_toggle_playback"}

\* the outcomes of command_func(), line 127
CommandFunc(op, arg) ==
    CASE op = "_find_zone"       -> FindZoneCmd
      [] op = "_get_zones"       -> GetZonesCmd
      [] op = "_get_volume"      -> GetVolumeCmd
      [] op = "_set_volume"      -> SetVolumeCmd(arg)
      [] op = "_toggle_playback" -> TogglePlaybackCmd

-----------------------------------------------------------------------------
(* ControlSession: setup_roon and robust_roon_command *)

\* how setup_roon ends: authorized; timeout of the readiness poll; an exception
\* before the handle is created
SetupOutcomes ==
    {"ok", "timeout", "error"}

\* setup_roon, lines 145-253: the handle is replaced at line 177, the health flag
\* is set at lines 198, 247, 252
setup_roon(o) ==
    /\ roonapi' = CASE o = "ok"      -> "authorized"
                    [] o = "timeout" -> "unauthorized"
                    [] OTHER         -> roonapi
    /\ roon_connection_healthy' = (o = "ok")

IdleFrame ==
    [pc |-> "idle", op |-> "", arg |-> 0, attempt |-> 0, result |-> NoneV,
     handle0 |-> "None"]

\* entry of robust_roon_command(command_func), line 111
Call(op, arg) ==
    /\ rrc' = [pc |-> "attempt", op |-> op, arg |-> arg, attempt |-> 0, result |-> NoneV,
               handle0 |-> roonapi]
    /\ cmdTrace' = <<>>

\* one entry of cmdTrace: a connect or an execution of command_func, how it ended,
\* the attempt it belongs to and, for an execution that returned, the value
TraceEntry(e, o, at, r) ==
    [e |-> e, o |-> o, at |-> at, r |-> r]

\* variant of NeedsConnect: connect whenever the handle is not an authorized one
NeedsConnect_Unauthorized ==
    roonapi # "authorized"

\* line 115: not self.roonapi
NeedsConnect ==
    roonapi = "None"

\* variant of RetryAfterConnectFailure: one retry less
RetryAfterConnectFailure_OneLess(attempt) ==
    attempt < max_retries - 2

\* line 118: attempt < max_retries - 1
RetryAfterConnectFailure(attempt) ==
    attempt < max_retries - 1

\* variant of RetryAfterException: off by one, the last attempt reconnects too
RetryAfterException_OffByOne(attempt) ==
    attempt < max_retries

\* line 134: attempt < max_retries - 1
RetryAfterException(attempt) ==
    attempt < max_retries - 1

\* variant of HealthAfterReturn: the flag is not set on success
HealthAfterReturn_Stale ==
    roon_connection_healthy

\* line 129: the flag after command_func returned
HealthAfterReturn ==
    TRUE

\* lines 113-125 and 143: the head of one attempt
RRC_Attempt ==
    /\ ProcessAlive
    /\ rrc.pc = "attempt"
    /\ IF rrc.attempt >= max_retries
         THEN /\ rrc' = [rrc EXCEPT !.pc = "done", !.result = BoolV(FALSE)]
              /\ UNCHANGED <<roonapi, roon_connection_healthy, cmdTrace>>
         ELSE IF NeedsConnect
           THEN \E o \in SetupOutcomes :
                  /\ setup_roon(o)
                  /\ cmdTrace' = Append(cmdTrace, TraceEntry("connect", o, rrc.attempt, NoneV))
                  /\ rrc' = IF o = "ok"
                              THEN [rrc EXCEPT !.pc = "exec"]
                            ELSE IF RetryAfterConnectFailure(rrc.attempt)
                              THEN [rrc EXCEPT !.attempt = @ + 1]
                              ELSE [rrc EXCEPT !.pc = "done", !.result = BoolV(FALSE)]
           ELSE /\ rrc' = [rrc EXCEPT !.pc = "exec"]
                /\ UNCHANGED <<roonapi, roon_connection_healthy, cmdTrace>>
    /\ UNCHANGED <<zone_output_id, controller_running, mqtt_client, mqtt_connected,
                   config, volume, main_pc, handler, hpc, event, current, delta, fz,
                   enumerated, remoteLog>>
    /\ UNCHANGED svars

\* lines 127-130 and 132-133: command_func() returns or raises
RRC_Exec ==
    /\ ProcessAlive
    /\ rrc.pc = "exec"
    /\ \E out \in CommandFunc(rrc.op, rrc.arg) :
         /\ volume' = out.volume
         /\ remoteLog' = remoteLog \o out.log
         /\ enumerated' = out.enum
         /\ IF out.raised
              THEN /\ rrc' = [rrc EXCEPT !.pc = "except"]
                   /\ cmdTrace' = Append(cmdTrace, TraceEntry("op", "raise", rrc.attempt, NoneV))
                   /\ UNCHANGED <<roon_connection_healthy, fz>>
              ELSE /\ rrc' = [rrc EXCEPT !.pc = "done", !.result = out.result]
                   /\ cmdTrace' = Append(cmdTrace, TraceEntry("op", "return", rrc.attempt,
                                                          out.result))
                   /\ roon_connection_healthy' = HealthAfterReturn
                   /\ fz' = IF /\ rrc.op = "_find_zone"
                               /\ fz.seenAt = -1
                               /\ IdEnumerated(out.enum, fz.zone_id)
                              THEN [fz EXCEPT !.seenAt = fz.attempt]
                              ELSE fz
    /\ UNCHANGED <<roonapi, zone_output_id, controller_running, mqtt_client,
                   mqtt_connected, config, main_pc, handler, hpc, event, current, delta>>
    /\ UNCHANGED svars

\* lines 134-141: after an exception, reconnect for the next attempt or give up
RRC_Except ==
    /\ ProcessAlive
    /\ rrc.pc = "except"
    /\ IF RetryAfterException(rrc.attempt)
         THEN \E o \in SetupOutcomes :
                /\ setup_roon(o)
                /\ cmdTrace' = Append(cmdTrace, TraceEntry("connect", o, rrc.attempt, NoneV))
         ELSE /\ roon_connection_healthy' = FALSE
              /\ UNCHANGED <<roonapi, cmdTrace>>
    /\ rrc' = [rrc EXCEPT !.pc = "attempt", !.attempt = @ + 1]
    /\ UNCHANGED <<zone_output_id, controller_running, mqtt_client, mqtt_connected,
                   config, volume, main_pc, handler, hpc, event, current, delta, fz,
                   enumerated, remoteLog>>
    /\ UNCHANGED svars

-----------------------------------------------------------------------------
(* ZoneResolver: find_zone_output_id *)

FzIdle ==
    [pc |-> "idle", zone_id |-> "None", zone_name |-> <<>>, retries |-> 0,
     attempt |-> 0, waits |-> 0, seenAt |-> -1, result |-> NoneV]

\* entry of find_zone_output_id(zone_id, zone_name, retries, wait_time), lines 255, 284-287
FindZoneOutputId(zid, zname, retries) ==
    /\ fz' = [pc |-> "call", zone_id |-> zid, zone_name |-> zname, retries |-> retries,
              attempt |-> 0, waits |-> 0, seenAt |-> -1, result |-> NoneV]
    /\ Call("_find_zone", 0)

\* a variant that allows one attempt more
MoreResolveAttempts_OneMore ==
    fz.attempt < fz.retries

\* line 291: attempt < retries - 1
MoreResolveAttempts ==
    fz.attempt < fz.retries - 1

\* lines 287-297: the result of one attempt; wait and retry, or return
FZ_Result ==
    /\ ProcessAlive
    /\ fz.pc = "call"
    /\ rrc.pc = "done"
    /\ IF Truthy(rrc.result)
         THEN /\ fz' = [fz EXCEPT !.pc = "done", !.result = rrc.result]
              /\ rrc' = IdleFrame
              /\ cmdTrace' = <<>>
         ELSE IF MoreResolveAttempts
           THEN /\ fz' = [fz EXCEPT !.attempt = @ + 1, !.waits = @ + 1]
                /\ Call("_find_zone", 0)
           ELSE /\ fz' = [fz EXCEPT !.pc = "done", !.result = NoneV]
                /\ rrc' = IdleFrame
                /\ cmdTrace' = <<>>
    /\ UNCHANGED <<roonapi, zone_output_id, roon_connection_healthy, controller_running,
                   mqtt_client, mqtt_connected, config, volume, main_pc, handler, hpc,
                   event, current, delta, enumerated, remoteLog>>
    /\ UNCHANGED svars

-----------------------------------------------------------------------------
(* Supervisor: the startup chain of run_service_mode *)

\* variant of SetupRoonSucceeded: the result of setup_roon is not looked at
SetupRoonSucceeded_Any(o) ==
    TRUE

\* lines 1096 and 1043: the value setup_roon returned is True
SetupRoonSucceeded(o) ==
    o = "ok"

\* lines 1096-1108: setup_roon must succeed, then the zone is looked up
RSM_SetupRoon ==
    /\ main_pc = "setup_roon"
    /\ \E o \in SetupOutcomes :
         /\ setup_roon(o)
         /\ IF SetupRoonSucceeded(o)
              THEN /\ main_pc' = "find_zone"
                   /\ FindZoneOutputId(config.zone_id, config.zone_name, service_retries)
              ELSE /\ main_pc' = "returned_false"
                   /\ UNCHANGED <<fz, rrc, cmdTrace>>
    /\ UNCHANGED <<zone_output_id, controller_running, mqtt_client, mqtt_connected,
                   config, volume, handler, hpc, event, current, delta, enumerated,
                   remoteLog>>
    /\ UNCHANGED svars

\* a variant that sets the initial volume whether or not a zone was bound
InitialVolumeDue_Unbound ==
    config.volume.t # "None"

\* lines 1110 and 1119: a zone was bound and config['volume'] is not None
InitialVolumeDue ==
    Truthy(fz.result) /\ config.volume.t # "None"

\* a variant that sets the initial volume by calling set_volume_percent itself
RSM_ZoneResolved_Direct ==
    /\ main_pc = "find_zone"
    /\ fz.pc = "done"
    /\ zone_output_id' = IF Truthy(fz.result) THEN fz.result.id ELSE "None"
    /\ fz' = FzIdle
    /\ enumerated' = <<>>
    /\ main_pc' = "setup_mqtt"
    /\ IF InitialVolumeDue
         THEN /\ volume' = SetVolumeClamp(Num(config.volume))
              /\ remoteLog' = <<LogEntry("set_volume_percent", fz.result.id,
                                         SetVolumeClamp(Num(config.volume)), "", TRUE)>>
         ELSE UNCHANGED <<volume, remoteLog>>
    /\ UNCHANGED <<roonapi, roon_connection_healthy, controller_running, mqtt_client,
                   mqtt_connected, config, handler, hpc, event, current, delta, rrc,
                   cmdTrace>>
    /\ UNCHANGED svars

\* lines 1103 and 1110-1121: bind the zone; the initial volume only if it is bound
RSM_ZoneResolved ==
    /\ main_pc = "find_zone"
    /\ fz.pc = "done"
    /\ zone_output_id' = IF Truthy(fz.result) THEN fz.result.id ELSE "None"
    /\ fz' = FzIdle
    /\ enumerated' = <<>>
    /\ IF InitialVolumeDue
         THEN /\ main_pc' = "init_volume"
              /\ Call("_set_volume", Num(config.volume))
         ELSE /\ main_pc' = "setup_mqtt"
              /\ UNCHANGED <<rrc, cmdTrace>>
    /\ UNCHANGED <<roonapi, roon_connection_healthy, controller_running, mqtt_client,
                   mqtt_connected, config, volume, handler, hpc, event, current, delta,
                   remoteLog>>
    /\ UNCHANGED svars

\* line 1121: set_volume returned
RSM_InitVolumeDone ==
    /\ main_pc = "init_volume"
    /\ rrc.pc = "done"
    /\ main_pc' = "setup_mqtt"
    /\ rrc' = IdleFrame
    /\ cmdTrace' = <<>>
    /\ UNCHANGED <<roonapi, zone_output_id, roon_connection_healthy, controller_running,
                   mqtt_client, mqtt_connected, config, volume, handler, hpc, event,
                   current, delta, fz, enumerated, remoteLog>>
    /\ UNCHANGED svars

\* how setup_mqtt ends: acknowledged and subscribed within the wait; not acknowledged;
\* acknowledged but subscribe raised in on_mqtt_connect; connect raised
MqttOutcomes ==
    {"ok", "noack", "nosub", "error"}

\* setup_mqtt, lines 420-447, with on_mqtt_connect, lines 449-457, when the broker
\* acknowledges within the wait; its result is the flag it leaves (line 442)
setup_mqtt(o) ==
    /\ mqtt_client' = "client"
    /\ mqtt_connected' = CASE o = "ok"               -> TRUE
                           [] o \in {"noack", "nosub"} -> mqtt_connected
                           [] OTHER                  -> FALSE
    /\ link' = CASE o = "ok"    -> "up"
                  [] o = "noack" -> "connecting"
                  [] o = "nosub" -> "acked"
                  [] OTHER       -> "down"

\* lines 1123-1128: setup_mqtt must succeed, then the controller is marked running
RSM_SetupMqtt ==
    /\ main_pc = "setup_mqtt"
    /\ \E o \in MqttOutcomes :
         /\ setup_mqtt(o)
         /\ controller_running' = mqtt_connected'
         /\ main_pc' = IF mqtt_connected' THEN "running" ELSE "returned_false"
    /\ UNCHANGED <<roonapi, zone_output_id, roon_connection_healthy, config, volume,
                   handler, hpc, event, current, delta, rrc, fz, enumerated, cmdTrace,
                   remoteLog>>
    /\ UNCHANGED <<knob, cb, now, ctl, sr>>

-----------------------------------------------------------------------------
(* ActionDispatcher: handle_knob_action, change_volume, set_volume, toggle_playback *)

\* the action tags a decoded message carries; "triple" stands for any unknown tag
ActionTags ==
    {"rotate_left", "rotate_right", "single", "double", "hold", "triple"}

\* variant of NoZoneConfigured: the guard is missing
NoZoneConfigured_Never ==
    FALSE

\* line 511: not self.zone_output_id
NoZoneConfigured ==
    zone_output_id = "None"

\* a variant that turns the volume up on either rotation
RotationDelta_Up(a) ==
    config.volume_step

\* lines 516 and 518: the delta of a rotation
RotationDelta(a) ==
    IF a = "rotate_left" THEN -config.volume_step ELSE config.volume_step

\* a variant in which a callback starts while another handler is running
Serving_Reentrant ==
    main_pc = "running"

\* a handler may start: the service is up and no other handler is running
Serving ==
    /\ main_pc = "running"
    /\ handler = "none"

\* handle_knob_action(action), lines 507-528, up to the first remote command
handle_knob_action(a) ==
    /\ event' = a
    /\ remoteLog' = <<>>
    /\ current' = NoneV
    /\ IF NoZoneConfigured
         THEN /\ hpc' = "done"
              /\ delta' = 0
              /\ UNCHANGED <<rrc, cmdTrace>>
         ELSE CASE a \in {"rotate_left", "rotate_right"} ->
                     /\ hpc' = "cv_get"
                     /\ delta' = RotationDelta(a)
                     /\ Call("_get_volume", 0)
                [] a = "single" ->
                     /\ hpc' = "toggle"
                     /\ delta' = 0
                     /\ Call("_toggle_playback", 0)
                [] a = "double" ->
                     /\ hpc' = "set"
                     /\ delta' = 0
                     /\ Call("_set_volume", DoubleVolume)
                [] a = "hold" ->
                     /\ hpc' = "set"
                     /\ delta' = 0
                     /\ Call("_set_volume", HoldVolume)
                [] OTHER ->
                     /\ hpc' = "done"
                     /\ delta' = 0
                     /\ UNCHANGED <<rrc, cmdTrace>>

\* a knob event with tag a reaches handle_knob_action (line 502)
HK_Enter(a) ==
    /\ Serving
    /\ mqtt_connected
    /\ handler' = "knob"
    /\ handle_knob_action(a)
    /\ UNCHANGED <<roonapi, zone_output_id, roon_connection_healthy, controller_running,
                   mqtt_client, mqtt_connected, config, volume, main_pc, fz, enumerated>>
    /\ UNCHANGED svars

\* change_volume, lines 356-362, after get_current_volume returned
CV_GotVolume ==
    /\ ProcessAlive
    /\ handler = "knob"
    /\ hpc = "cv_get"
    /\ rrc.pc = "done"
    /\ current' = rrc.result
    /\ IF VolumeKnown(rrc.result)
         THEN /\ hpc' = "cv_set"
              /\ Call("_set_volume", NewVolume(rrc.result, delta))
         ELSE /\ hpc' = "done"
              /\ UNCHANGED <<rrc, cmdTrace>>
    /\ UNCHANGED <<roonapi, zone_output_id, roon_connection_healthy, controller_running,
                   mqtt_client, mqtt_connected, config, volume, main_pc, handler, event,
                   delta, fz, enumerated, remoteLog>>
    /\ UNCHANGED svars

\* api_test_volume, lines 991-993: the web test reads the volume first
WT_Enter ==
    /\ Serving
    /\ handler' = "web_test"
    /\ hpc' = "wt_get"
    /\ event' = "none"
    /\ delta' = 0
    /\ current' = NoneV
    /\ remoteLog' = <<>>
    /\ Call("_get_volume", 0)
    /\ UNCHANGED <<roonapi, zone_output_id, roon_connection_healthy, controller_running,
                   mqtt_client, mqtt_connected, config, volume, main_pc, fz, enumerated>>
    /\ UNCHANGED svars

\* api_test_volume, lines 994-1012, after get_current_volume returned
WT_GotVolume ==
    /\ ProcessAlive
    /\ handler = "web_test"
    /\ hpc = "wt_get"
    /\ rrc.pc = "done"
    /\ current' = rrc.result
    /\ IF VolumeKnown(rrc.result)
         THEN /\ hpc' = "wt_set"
              /\ Call("_set_volume", TestVolume(rrc.result))
         ELSE /\ hpc' = "done"
              /\ UNCHANGED <<rrc, cmdTrace>>
    /\ UNCHANGED <<roonapi, zone_output_id, roon_connection_healthy, controller_running,
                   mqtt_client, mqtt_connected, config, volume, main_pc, handler, event,
                   delta, fz, enumerated, remoteLog>>
    /\ UNCHANGED svars

\* api_zones, lines 921-925: the web request for the zone list calls get_zones
WZ_Enter ==
    /\ Serving
    /\ handler' = "web_zones"
    /\ hpc' = "zones"
    /\ event' = "none"
    /\ delta' = 0
    /\ current' = NoneV
    /\ remoteLog' = <<>>
    /\ Call("_get_zones", 0)
    /\ UNCHANGED <<roonapi, zone_output_id, roon_connection_healthy, controller_running,
                   mqtt_client, mqtt_connected, config, volume, main_pc, fz, enumerated>>
    /\ UNCHANGED svars

\* the last remote command of a handler returned (lines 359, 416, 522, 525, 996)
H_CmdDone ==
    /\ ProcessAlive
    /\ handler # "none"
    /\ hpc \in {"cv_set", "set", "toggle", "wt_set", "zones"}
    /\ rrc.pc = "done"
    /\ hpc' = "done"
    /\ UNCHANGED <<roonapi, zone_output_id, roon_connection_healthy, controller_running,
                   mqtt_client, mqtt_connected, config, volume, main_pc, handler, event,
                   current, delta, rrc, fz, enumerated, cmdTrace, remoteLog>>
    /\ UNCHANGED svars

\* the handler returns to its caller; its locals are gone
H_Return ==
    /\ ProcessAlive
    /\ handler # "none"
    /\ hpc = "done"
    /\ handler' = "none"
    /\ hpc' = "idle"
    /\ event' = "none"
    /\ current' = NoneV
    /\ delta' = 0
    /\ rrc' = IdleFrame
    /\ cmdTrace' = <<>>
    /\ remoteLog' = <<>>
    /\ enumerated' = <<>>
    /\ UNCHANGED <<roonapi, zone_output_id, roon_connection_healthy, controller_running,
                   mqtt_client, mqtt_connected, config, volume, main_pc, fz>>
    /\ cb' = IdleCb
    /\ UNCHANGED <<knob, link, now, ctl, sr>>

-----------------------------------------------------------------------------
(* TransportSession: the callbacks of the broker connection *)

\* reason codes of a connect acknowledgement or of a disconnect: 0 is the normal one
ReasonCodes ==
    {0, 7}

\* how client.reconnect() ends
ReconnectOutcomes ==
    {"ok", "raise"}

\* what msg.payload holds: bytes that are not JSON; JSON that is not an object (a
\* number, null, a string, a list); an object with some of the keys
Payloads ==
    { [NoPayload EXCEPT !.kind = "invalid"],
      [NoPayload EXCEPT !.kind = "nonobject"],
      [NoPayload EXCEPT !.kind = "object"],
      [kind |-> "object", battery |-> IntV(80), voltage |-> IntV(3000),
       linkquality |-> IntV(120), action |-> "absent"],
      [kind |-> "object", battery |-> IntV(70), voltage |-> Absent,
       linkquality |-> Absent, action |-> "single"] }
    \cup { [NoPayload EXCEPT !.kind = "object", !.action = a] :
             a \in {"rotate_left", "rotate_right", "double", "hold", "triple"} }

\* line 484: json.loads(msg.payload.decode()) returns
Decodes(p) ==
    p.kind # "invalid"

\* lines 489, 492, 495, 499: `key in payload` is True and payload[key] gives a value;
\* on a decoded value that is not an object one of the two raises
KeyCarried(p, v) ==
    p.kind = "object" /\ v # Absent

\* line 488: knob_last_seen after a message received at time t; it is assigned as
\* soon as the payload has decoded, before any key is looked up
LastSeenAfter(k, p, t) ==
    IF Decodes(p) THEN IntV(t) ELSE k.last_seen

\* lines 488-497: the telemetry after a message with payload p received at time t
Telemetry(k, p, t) ==
    [battery     |-> IF KeyCarried(p, p.battery) THEN p.battery ELSE k.battery,
     voltage     |-> IF KeyCarried(p, p.voltage) THEN p.voltage ELSE k.voltage,
     linkquality |-> IF KeyCarried(p, p.linkquality) THEN p.linkquality
                     ELSE k.linkquality,
     last_seen   |-> LastSeenAfter(k, p, t)]

\* line 499: 'action' in payload, on an object
HasAction(p) ==
    p.kind = "object" /\ p.action # "absent"

\* on_mqtt_message, lines 482-505: decode, telemetry, then handle_knob_action; an
\* exception (line 504) ends the callback
MSG_Enter(p) ==
    /\ Serving
    /\ link = "up"
    /\ now < MaxMessages
    /\ now' = now + 1
    /\ cb' = [IdleCb EXCEPT !.payload = p, !.knob0 = knob]
    /\ knob' = Telemetry(knob, p, now + 1)
    /\ IF HasAction(p)
         THEN /\ handler' = "knob"
              /\ handle_knob_action(p.action)
         ELSE /\ handler' = "msg"
              /\ hpc' = "done"
              /\ event' = "none"
              /\ UNCHANGED <<current, delta, rrc, cmdTrace, remoteLog>>
    /\ UNCHANGED <<roonapi, zone_output_id, roon_connection_healthy, controller_running,
                   mqtt_client, mqtt_connected, config, volume, main_pc, fz, enumerated,
                   link, ctl, sr>>

\* client.subscribe, line 453: it returns, or raises before line 454 is reached
SubscribeOutcomes ==
    {"ok", "raise"}

\* a variant that takes every acknowledgement as a success
ConnectAccepted_Any(rc) ==
    TRUE

\* line 450: reason_code == 0
ConnectAccepted(rc) ==
    rc = 0

\* on_mqtt_connect, lines 449-457: the broker answered a connect; on code 0 the topic
\* is subscribed and then the flag set, on any other code the flag is cleared
OnMqttConnect(rc) ==
    /\ Serving
    /\ link = "connecting"
    /\ IF ConnectAccepted(rc)
         THEN \E o \in SubscribeOutcomes :
                IF o = "ok"
                  THEN /\ link' = "up"
                       /\ mqtt_connected' = TRUE
                  ELSE /\ link' = "acked"
                       /\ UNCHANGED mqtt_connected
         ELSE /\ link' = "down"
              /\ mqtt_connected' = FALSE
    /\ UNCHANGED <<roonapi, zone_output_id, roon_connection_healthy, controller_running,
                   mqtt_client, config, volume, main_pc, handler, hpc, event, current,
                   delta, rrc, fz, enumerated, cmdTrace, remoteLog, knob, cb, now, ctl,
                   sr>>

\* variant of ReconnectWanted: every disconnect reconnects
ReconnectWanted_Always(rc) ==
    TRUE

\* line 465: reason_code != 0
ReconnectWanted(rc) ==
    rc # 0

\* on_mqtt_disconnect, lines 459-465: the connection was lost (a reason code other
\* than 0) or closed as the client asked (0)
OD_Enter(rc) ==
    /\ Serving
    /\ \/ link \in {"up", "acked"} /\ rc # 0
       \/ link = "closing" /\ rc = 0
    /\ handler' = "disconnect"
    /\ hpc' = IF ReconnectWanted(rc) THEN "reconnect" ELSE "done"
    /\ mqtt_connected' = FALSE
    /\ link' = "down"
    /\ cb' = [IdleCb EXCEPT !.rc = rc]
    /\ UNCHANGED <<roonapi, zone_output_id, roon_connection_healthy, controller_running,
                   mqtt_client, config, volume, main_pc, event, current, delta, rrc, fz,
                   enumerated, cmdTrace, remoteLog, knob, now, ctl, sr>>

\* on_mqtt_disconnect, lines 466-471: one reconnect, its exception caught
OD_Reconnect ==
    /\ ProcessAlive
    /\ handler = "disconnect"
    /\ hpc = "reconnect"
    /\ \E o \in ReconnectOutcomes :
         link' = IF o = "ok" THEN "connecting" ELSE link
    /\ cb' = [cb EXCEPT !.reconnects = @ + 1]
    /\ hpc' = "done"
    /\ UNCHANGED <<roonapi, zone_output_id, roon_connection_healthy, controller_running,
                   mqtt_client, mqtt_connected, config, volume, main_pc, handler, event,
                   current, delta, rrc, fz, enumerated, cmdTrace, remoteLog, knob, now,
                   ctl, sr>>

-----------------------------------------------------------------------------
(* Supervisor: the health loop, stop_controller and the restart of the controller *)

\* variant of ReconnectCaught: the exception of reconnect leaves the loop
ReconnectCaught_No ==
    FALSE

\* line 1154: except Exception around the health loop's reconnect
ReconnectCaught ==
    TRUE

\* a variant that reconnects on every tick
ReconnectDue_Always ==
    mqtt_client # "None"

\* line 1149: not self.mqtt_connected and self.mqtt_client
ReconnectDue ==
    ~mqtt_connected /\ mqtt_client # "None"

\* the health loop wakes from sleep(1), lines 1146-1156: a reconnect when one is due,
\* followed by the sleep of line 1151 or 1155; otherwise the loop is back at its test,
\* line 1145, at once.  When the loop ends run_service_mode returns, main returns
\* and the process exits
HealthTick ==
    /\ main_pc = "running"
    /\ ctl.pc = "sleep"
    /\ IF ReconnectDue
         THEN \E o \in ReconnectOutcomes :
                IF o = "ok"
                  THEN /\ link' = "connecting"
                       /\ ctl' = [ctl EXCEPT !.tick = "reconnected", !.pc = "backoff"]
                       /\ UNCHANGED main_pc
                  ELSE /\ ctl' = [ctl EXCEPT !.tick = "failed", !.pc = "backoff"]
                       /\ main_pc' = IF ReconnectCaught THEN main_pc ELSE "crashed"
                       /\ UNCHANGED link
         ELSE /\ ctl' = [ctl EXCEPT !.tick = "idle"]
              /\ main_pc' = IF controller_running THEN main_pc ELSE "exited"
              /\ UNCHANGED link
    /\ UNCHANGED <<roonapi, zone_output_id, roon_connection_healthy, controller_running,
                   mqtt_client, mqtt_connected, config, volume, handler, hpc, event,
                   current, delta, rrc, fz, enumerated, cmdTrace, remoteLog, knob, cb,
                   now, sr>>

\* line 1145 after the sleep that follows a reconnect: `while self.controller_running`
HealthLoopTest ==
    /\ main_pc = "running"
    /\ ctl.pc = "backoff"
    /\ ctl' = [ctl EXCEPT !.pc = "sleep"]
    /\ main_pc' = IF controller_running THEN main_pc ELSE "exited"
    /\ UNCHANGED <<roonapi, zone_output_id, roon_connection_healthy, controller_running,
                   mqtt_client, mqtt_connected, config, volume, handler, hpc, event,
                   current, delta, rrc, fz, enumerated, cmdTrace, remoteLog, knob, link,
                   cb, now, sr>>

\* stop_controller, lines 1077-1090
stop_controller ==
    /\ controller_running' = FALSE
    /\ link' = CASE mqtt_client # "None" /\ link \in {"up", "acked"} -> "closing"
                 [] mqtt_client # "None" /\ link = "connecting"    -> "down"
                 [] OTHER                                       -> link
    /\ mqtt_connected' = FALSE
    /\ roon_connection_healthy' = FALSE

\* signal_handler, lines 60-64: SIGINT or SIGTERM stops the controller and exits
SignalHandler ==
    /\ main_pc = "running"
    /\ stop_controller
    /\ main_pc' = "exited"
    /\ UNCHANGED <<roonapi, zone_output_id, mqtt_client, config, volume, handler, hpc,
                   event, current, delta, rrc, fz, enumerated, cmdTrace, remoteLog, knob,
                   cb, now, ctl, sr>>

\* the zone a POST to /api/config selects
ConfigUpdates ==
    { [zone_id |-> "o2", zone_name |-> <<"D">>],
      [zone_id |-> "None", zone_name |-> <<>>] }

\* api_config (POST), lines 928-943: the keys are stored and saved; when saved and
\* the controller runs it is stopped
API_Config(d) ==
    /\ Serving
    /\ handler' = "api_config"
    /\ config' = [config EXCEPT !.zone_id = d.zone_id, !.zone_name = d.zone_name]
    /\ \E saved \in BOOLEAN :
         IF saved /\ controller_running
           THEN /\ stop_controller
                /\ hpc' = "sleep"
           ELSE /\ hpc' = "done"
                /\ UNCHANGED <<controller_running, link, mqtt_connected,
                               roon_connection_healthy>>
    /\ UNCHANGED <<roonapi, zone_output_id, mqtt_client, volume, main_pc, event, current,
                   delta, rrc, fz, enumerated, cmdTrace, remoteLog, knob, cb, now, ctl,
                   sr>>

\* lines 944-945 with start_controller, lines 1024-1036, and the first statement of
\* the new thread, line 1040
AC_Start ==
    /\ ProcessAlive
    /\ handler = "api_config"
    /\ hpc = "sleep"
    /\ handler' = "run_controller"
    /\ hpc' = "rc_setup_roon"
    /\ controller_running' = TRUE
    /\ ctl' = [ctl EXCEPT !.thread = "started", !.zone = "none"]
    /\ UNCHANGED <<roonapi, zone_output_id, roon_connection_healthy, mqtt_client,
                   mqtt_connected, config, volume, main_pc, event, current, delta, rrc,
                   fz, enumerated, cmdTrace, remoteLog, knob, link, cb, now, sr>>

\* run_controller, lines 1043-1052: setup_roon must succeed, then the zone is looked up
RC_SetupRoon ==
    /\ ProcessAlive
    /\ handler = "run_controller"
    /\ hpc = "rc_setup_roon"
    /\ \E o \in SetupOutcomes :
         /\ setup_roon(o)
         /\ IF SetupRoonSucceeded(o)
              THEN /\ hpc' = "rc_find_zone"
                   /\ FindZoneOutputId(config.zone_id, config.zone_name, default_retries)
                   /\ UNCHANGED <<controller_running, ctl>>
              ELSE /\ hpc' = "done"
                   /\ controller_running' = FALSE
                   /\ ctl' = [ctl EXCEPT !.thread = "returned"]
                   /\ UNCHANGED <<fz, rrc, cmdTrace>>
    /\ UNCHANGED <<zone_output_id, mqtt_client, mqtt_connected, config, volume, main_pc,
                   handler, event, current, delta, enumerated, remoteLog, knob, link, cb,
                   now, sr>>

\* run_controller, lines 1049-1066: bind the zone; without one the thread returns
RC_ZoneResolved ==
    /\ ProcessAlive
    /\ handler = "run_controller"
    /\ hpc = "rc_find_zone"
    /\ fz.pc = "done"
    /\ zone_output_id' = IF Truthy(fz.result) THEN fz.result.id ELSE "None"
    /\ fz' = FzIdle
    /\ enumerated' = <<>>
    /\ IF ~Truthy(fz.result)
         THEN /\ ctl' = [ctl EXCEPT !.zone = "unresolved", !.thread = "returned"]
              /\ controller_running' = FALSE
              /\ hpc' = "done"
              /\ UNCHANGED <<rrc, cmdTrace>>
         ELSE /\ ctl' = [ctl EXCEPT !.zone = "bound"]
              /\ UNCHANGED controller_running
              /\ IF config.volume.t # "None"
                   THEN /\ hpc' = "rc_init_volume"
                        /\ Call("_set_volume", Num(config.volume))
                   ELSE /\ hpc' = "rc_setup_mqtt"
                        /\ UNCHANGED <<rrc, cmdTrace>>
    /\ UNCHANGED <<roonapi, roon_connection_healthy, mqtt_client, mqtt_connected, config,
                   volume, main_pc, handler, event, current, delta, remoteLog, knob, link,
                   cb, now, sr>>

\* line 1066: set_volume returned
RC_InitVolumeDone ==
    /\ ProcessAlive
    /\ handler = "run_controller"
    /\ hpc = "rc_init_volume"
    /\ rrc.pc = "done"
    /\ hpc' = "rc_setup_mqtt"
    /\ rrc' = IdleFrame
    /\ cmdTrace' = <<>>
    /\ UNCHANGED <<roonapi, zone_output_id, roon_connection_healthy, controller_running,
                   mqtt_client, mqtt_connected, config, volume, main_pc, handler, event,
                   current, delta, fz, enumerated, remoteLog, knob, link, cb, now, ctl,
                   sr>>

\* line 424 replaces self.mqtt_client; the client it replaces is neither stopped
\* nor detached from the callbacks, so a reconnect the health loop issued on it
\* (line 1150) is still waiting for its acknowledgement
ReplacedClient ==
    IF mqtt_client # "None" /\ link = "connecting" THEN "connecting" ELSE "none"

\* run_controller, lines 1068-1075: setup_mqtt must succeed, then the thread waits
RC_SetupMqtt ==
    /\ ProcessAlive
    /\ handler = "run_controller"
    /\ hpc = "rc_setup_mqtt"
    /\ \E o \in MqttOutcomes :
         /\ setup_mqtt(o)
         /\ controller_running' = IF mqtt_connected' THEN controller_running ELSE FALSE
         /\ ctl' = [ctl EXCEPT !.thread = IF mqtt_connected' THEN "loop" ELSE "returned",
                                !.old = ReplacedClient]
    /\ hpc' = "done"
    /\ UNCHANGED <<roonapi, zone_output_id, roon_connection_healthy, config, volume,
                   main_pc, handler, event, current, delta, rrc, fz, enumerated, cmdTrace,
                   remoteLog, knob, cb, now, sr>>

\* on_mqtt_connect, lines 449-457, called by the replaced client when the broker
\* answers its reconnect: the callback is the same bound method, so it subscribes
\* that client and sets the flag of the controller
OnMqttConnectOld(rc) ==
    /\ Serving
    /\ ctl.old = "connecting"
    /\ IF ConnectAccepted(rc)
         THEN \E o \in SubscribeOutcomes :
                IF o = "ok"
                  THEN /\ ctl' = [ctl EXCEPT !.old = "up"]
                       /\ mqtt_connected' = TRUE
                  ELSE /\ ctl' = [ctl EXCEPT !.old = "none"]
                       /\ UNCHANGED mqtt_connected
         ELSE /\ ctl' = [ctl EXCEPT !.old = "none"]
              /\ mqtt_connected' = FALSE
    /\ UNCHANGED <<roonapi, zone_output_id, roon_connection_healthy, controller_running,
                   mqtt_client, config, volume, main_pc, handler, hpc, event, current,
                   delta, rrc, fz, enumerated, cmdTrace, remoteLog, knob, link, cb, now,
                   sr>>

\* lines 1074-1075: the thread's loop ends once controller_running is False
RC_LoopExit ==
    /\ ProcessAlive
    /\ ctl.thread = "loop"
    /\ ~controller_running
    /\ ctl' = [ctl EXCEPT !.thread = "returned"]
    /\ UNCHANGED <<roonapi, zone_output_id, roon_connection_healthy, controller_running,
                   mqtt_client, mqtt_connected, config, volume, main_pc, handler, hpc,
                   event, current, delta, rrc, fz, enumerated, cmdTrace, remoteLog, knob,
                   link, cb, now, sr>>

-----------------------------------------------------------------------------
(* The controller from construction on *)

\* configurations the controller is started with (load_config, lines 66-95)
Configs ==
    { [zone_id |-> "o1", zone_name |-> <<"K">>, volume |-> IntV(15), volume_step |-> 5],
      [zone_id |-> "None", zone_name |-> <<"K">>, volume |-> IntV(150),
       volume_step |-> MaxStep],
      [zone_id |-> "o3", zone_name |-> <<"D">>, volume |-> IntV(-20), volume_step |-> 200],
      [zone_id |-> "None", zone_name |-> <<>>, volume |-> NoneV, volume_step |-> 5],
      [zone_id |-> "o2", zone_name |-> <<"K">>, volume |-> NoneV,
       volume_step |-> MaxStep] }

\* volumes the remote output may have when the controller starts
InitVolumes ==
    {15, 98}

\* __init__, lines 37-53, and the entry of run_service_mode
Init ==
    /\ roonapi = "None"
    /\ zone_output_id = "None"
    /\ roon_connection_healthy = FALSE
    /\ controller_running = FALSE
    /\ mqtt_client = "None"
    /\ mqtt_connected = FALSE
    /\ config \in Configs
    /\ volume \in InitVolumes
    /\ main_pc = "setup_roon"
    /\ handler = "none"
    /\ hpc = "idle"
    /\ event = "none"
    /\ current = NoneV
    /\ delta = 0
    /\ rrc = IdleFrame
    /\ fz = FzIdle
    /\ enumerated = <<>>
    /\ cmdTrace = <<>>
    /\ remoteLog = <<>>
    /\ knob = NoKnob
    /\ link = "down"
    /\ cb = IdleCb
    /\ now = 0
    /\ ctl = IdleCtl
    /\ sr = IdleSr

Next ==
    \/ RSM_SetupRoon
    \/ RSM_ZoneResolved
    \/ RSM_InitVolumeDone
    \/ RSM_SetupMqtt
    \/ FZ_Result
    \/ RRC_Attempt
    \/ RRC_Exec
    \/ RRC_Except
    \/ \E a \in ActionTags : HK_Enter(a)
    \/ CV_GotVolume
    \/ WT_Enter
    \/ WT_GotVolume
    \/ WZ_Enter
    \/ H_CmdDone
    \/ H_Return

Spec ==
    Init /\ [][Next]_vars

-----------------------------------------------------------------------------
(* robust_roon_command as a method: one call, from every state a caller of the *)
(* object can find it in, for every command_func                               *)

\* arguments of _set_volume
CallArgs ==
    {-20, 0, 50, 150}

\* zone ids a configuration may name
ZoneIdArgs ==
    {"None", "o1", "o2", "o3"}

InitCall ==
    /\ roonapi \in {"None", "unauthorized", "authorized"}
    /\ roon_connection_healthy \in BOOLEAN
    /\ zone_output_id \in {"None", "o1"}
    /\ roonapi = "None" => (~roon_connection_healthy /\ zone_output_id = "None")
    /\ controller_running = FALSE
    /\ mqtt_client = "None"
    /\ mqtt_connected = FALSE
    /\ config \in Configs
    /\ volume \in InitVolumes
    /\ main_pc = "setup_roon"
    /\ handler = "api"
    /\ hpc = "call"
    /\ event = "none"
    /\ current = NoneV
    /\ delta = 0
    /\ \E op \in Ops, arg \in CallArgs :
         /\ (op # "_set_volume" => arg = 0)
         /\ rrc = [pc |-> "attempt", op |-> op, arg |-> arg, attempt |-> 0,
                   result |-> NoneV, handle0 |-> roonapi]
         /\ fz = IF op = "_find_zone"
                   THEN [FzIdle EXCEPT !.pc = "call", !.zone_id = config.zone_id,
                                       !.zone_name = config.zone_name,
                                       !.retries = service_retries]
                   ELSE FzIdle
    /\ enumerated = <<>>
    /\ cmdTrace = <<>>
    /\ remoteLog = <<>>
    /\ knob = NoKnob
    /\ link = "down"
    /\ cb = IdleCb
    /\ now = 0
    /\ ctl = IdleCtl
    /\ sr = IdleSr

NextCall ==
    \/ RRC_Attempt
    \/ RRC_Exec
    \/ RRC_Except

SpecCall ==
    InitCall /\ [][NextCall]_vars

-----------------------------------------------------------------------------
(* _find_zone as a function of the enumeration and of the configured zone *)

\* lines 263-281: the match of _find_zone on its local `outputs`
FindZoneOnEnumeration ==
    /\ rrc.pc = "exec"
    /\ rrc.op = "_find_zone"
    /\ rrc' = [rrc EXCEPT !.pc = "done",
                          !.result = FindZone(enumerated, fz.zone_id, fz.zone_name)]
    /\ UNCHANGED <<roonapi, zone_output_id, roon_connection_healthy, controller_running,
                   mqtt_client, mqtt_connected, config, volume, main_pc, handler, hpc,
                   event, current, delta, fz, enumerated, cmdTrace, remoteLog>>
    /\ UNCHANGED svars

InitFindZone ==
    /\ roonapi = "authorized"
    /\ zone_output_id = "None"
    /\ roon_connection_healthy = TRUE
    /\ controller_running = FALSE
    /\ mqtt_client = "None"
    /\ mqtt_connected = FALSE
    /\ config \in { [zone_id |-> i, zone_name |-> n, volume |-> IntV(15),
                     volume_step |-> 5] : i \in ZoneIdArgs, n \in Names }
    /\ volume = 15
    /\ main_pc = "find_zone"
    /\ handler = "none"
    /\ hpc = "idle"
    /\ event = "none"
    /\ current = NoneV
    /\ delta = 0
    /\ rrc = [pc |-> "exec", op |-> "_find_zone", arg |-> 0, attempt |-> 0,
              result |-> NoneV, handle0 |-> "authorized"]
    /\ fz = [FzIdle EXCEPT !.pc = "call", !.zone_id = config.zone_id,
                           !.zone_name = config.zone_name, !.retries = service_retries]
    /\ enumerated \in AllOutputLists
    /\ cmdTrace = <<>>
    /\ remoteLog = <<>>
    /\ knob = NoKnob
    /\ link = "down"
    /\ cb = IdleCb
    /\ now = 0
    /\ ctl = IdleCtl
    /\ sr = IdleSr

SpecFindZone ==
    InitFindZone /\ [][FindZoneOnEnumeration]_vars

-----------------------------------------------------------------------------
(* The running service: transport callbacks, health loop, shutdown and restart, *)
(* from the states run_service_mode enters its loop in                          *)

\* configurations the service runs with
ServiceConfigs ==
    { c \in Configs : c.volume_step = 200 \/ c.zone_name = <<>> }

InitService ==
    /\ roonapi = "authorized"
    /\ zone_output_id \in {"None", "o1"}
    /\ roon_connection_healthy \in BOOLEAN
    /\ zone_output_id # "None" => roon_connection_healthy
    /\ controller_running = TRUE
    /\ mqtt_client = "client"
    /\ mqtt_connected = TRUE
    /\ config \in ServiceConfigs
    /\ volume = 15
    /\ main_pc = "running"
    /\ handler = "none"
    /\ hpc = "idle"
    /\ event = "none"
    /\ current = NoneV
    /\ delta = 0
    /\ rrc = IdleFrame
    /\ fz = FzIdle
    /\ enumerated = <<>>
    /\ cmdTrace = <<>>
    /\ remoteLog = <<>>
    /\ knob = NoKnob
    /\ link = "up"
    /\ cb = IdleCb
    /\ now = 0
    /\ ctl = IdleCtl
    /\ sr = IdleSr

NextService ==
    \/ \E p \in Payloads : MSG_Enter(p)
    \/ \E rc \in ReasonCodes : OnMqttConnect(rc)
    \/ \E rc \in ReasonCodes : OD_Enter(rc)
    \/ OD_Reconnect
    \/ HealthTick
    \/ HealthLoopTest
    \/ SignalHandler
    \/ RRC_Attempt
    \/ RRC_Exec
    \/ RRC_Except
    \/ CV_GotVolume
    \/ H_CmdDone
    \/ H_Return

SpecService ==
    InitService /\ [][NextService]_vars

-----------------------------------------------------------------------------
(* The reconfiguration of the running service: POST /api/config stops the       *)
(* controller and starts run_controller, beside the health loop and the broker  *)

NextRestart ==
    \/ \E rc \in ReasonCodes : OnMqttConnectOld(rc)
    \/ \E d \in ConfigUpdates : API_Config(d)
    \/ AC_Start
    \/ RC_SetupRoon
    \/ RC_ZoneResolved
    \/ RC_InitVolumeDone
    \/ RC_SetupMqtt
    \/ RC_LoopExit
    \/ FZ_Result
    \/ RRC_Attempt
    \/ RRC_Exec
    \/ RRC_Except
    \/ \E rc \in ReasonCodes : OnMqttConnect(rc)
    \/ \E rc \in ReasonCodes : OD_Enter(rc)
    \/ OD_Reconnect
    \/ HealthTick
    \/ HealthLoopTest
    \/ SignalHandler
    \/ H_Return

SpecRestart ==
    InitService /\ [][NextRestart]_vars

-----------------------------------------------------------------------------
(* setup_roon step by step: the readiness poll, from every state of the object *)

\* how the code before the poll ends (lines 147-184): the handle is created, or
\* reading the settings or creating the handle raises
EntryOutcomes ==
    {"created", "raise"}

\* how one poll ends: zones and outputs are there and the token is saved; they are
\* there and saving the token raises; one of them is None; an exception that says
\* "not ready" or "not authorized"; any other exception
PollOutcomes ==
    {"ready", "token_error", "not_yet", "not_ready", "other"}

\* variant of KeepWaiting: one poll more
KeepWaiting_OneMore(w) ==
    w <= max_wait_time

\* line 186: waited_time < max_wait_time
KeepWaiting(w) ==
    w < max_wait_time

\* lines 204 and 222: the poll that prints the authorization prompt
PromptDue(o, w) ==
    o \in {"not_yet", "not_ready"} /\ w = 0

\* lines 210 and 228: the poll that prints a waiting message
NoticeDue(o, w) ==
    o \in {"not_yet", "not_ready"} /\ w # 0 /\ w % reminder_interval = 0

\* line 236: the poll that prints the connection issue
IssueDue(o, w) ==
    o \in {"token_error", "other"}

\* lines 147-184: the settings are read and the handle is created
SR_Enter ==
    /\ sr.pc = "entry"
    /\ \E o \in EntryOutcomes :
         IF o = "created"
           THEN /\ roonapi' = "unauthorized"
                /\ sr' = [sr EXCEPT !.pc = "poll"]
                /\ UNCHANGED roon_connection_healthy
           ELSE /\ roon_connection_healthy' = FALSE
                /\ sr' = [sr EXCEPT !.pc = "done", !.result = "error"]
                /\ UNCHANGED roonapi
    /\ UNCHANGED <<zone_output_id, controller_running, mqtt_client, mqtt_connected,
                   config, volume, main_pc, handler, hpc, event, current, delta, rrc, fz,
                   enumerated, cmdTrace, remoteLog, knob, link, cb, now, ctl>>

\* one iteration of the loop of lines 186-239
SR_Poll ==
    /\ sr.pc = "poll"
    /\ KeepWaiting(sr.waited_time)
    /\ \E o \in PollOutcomes :
         IF o = "ready"
           THEN /\ roonapi' = "authorized"
                /\ roon_connection_healthy' = TRUE
                /\ sr' = [sr EXCEPT !.pc = "done", !.result = "ok", !.ready = TRUE,
                                    !.polls = @ + 1]
           ELSE /\ sr' = [sr EXCEPT
                            !.polls = @ + 1,
                            !.prompts = IF PromptDue(o, sr.waited_time) THEN @ + 1 ELSE @,
                            !.notices = IF NoticeDue(o, sr.waited_time) THEN @ + 1 ELSE @,
                            !.offbeat = @ \/ (IssueDue(o, sr.waited_time)
                                               /\ sr.waited_time % reminder_interval # 0),
                            !.waited_time = @ + check_interval]
                /\ UNCHANGED <<roonapi, roon_connection_healthy>>
    /\ UNCHANGED <<zone_output_id, controller_running, mqtt_client, mqtt_connected,
                   config, volume, main_pc, handler, hpc, event, current, delta, rrc, fz,
                   enumerated, cmdTrace, remoteLog, knob, link, cb, now, ctl>>

\* lines 241-248: the wait is over
SR_Timeout ==
    /\ sr.pc = "poll"
    /\ ~KeepWaiting(sr.waited_time)
    /\ roon_connection_healthy' = FALSE
    /\ sr' = [sr EXCEPT !.pc = "done", !.result = "timeout"]
    /\ UNCHANGED <<roonapi, zone_output_id, controller_running, mqtt_client,
                   mqtt_connected, config, volume, main_pc, handler, hpc, event, current,
                   delta, rrc, fz, enumerated, cmdTrace, remoteLog, knob, link, cb, now,
                   ctl>>

InitSetupRoon ==
    /\ roonapi \in {"None", "unauthorized", "authorized"}
    /\ roon_connection_healthy \in BOOLEAN
    /\ roonapi = "None" => ~roon_connection_healthy
    /\ zone_output_id = "None"
    /\ controller_running = FALSE
    /\ mqtt_client = "None"
    /\ mqtt_connected = FALSE
    /\ config \in Configs
    /\ volume \in InitVolumes
    /\ main_pc = "setup_roon"
    /\ handler = "none"
    /\ hpc = "idle"
    /\ event = "none"
    /\ current = NoneV
    /\ delta = 0
    /\ rrc = IdleFrame
    /\ fz = FzIdle
    /\ enumerated = <<>>
    /\ cmdTrace = <<>>
    /\ remoteLog = <<>>
    /\ knob = NoKnob
    /\ link = "down"
    /\ cb = IdleCb
    /\ now = 0
    /\ ctl = IdleCtl
    /\ sr = [IdleSr EXCEPT !.pc = "entry"]

NextSetupRoon ==
    \/ SR_Enter
    \/ SR_Poll
    \/ SR_Timeout

SpecSetupRoon ==
    InitSetupRoon /\ [][NextSetupRoon]_vars

-----------------------------------------------------------------------------
(* Properties of ControlSession.call (robust_roon_command), under SpecCall *)

\* command_func raised in attempt k (0-based) of the running call
RaisedAt(k) ==
    \E i \in 1..Len(cmdTrace) :
       cmdTrace[i].e = "op" /\ cmdTrace[i].o = "raise" /\ cmdTrace[i].at = k

\* command_func returned in attempt k of the running call
ReturnedAt(k) ==
    \E i \in 1..Len(cmdTrace) :
       cmdTrace[i].e = "op" /\ cmdTrace[i].o = "return" /\ cmdTrace[i].at = k

\* setup_roon failed in attempt k of the running call
ConnectFailedAt(k) ==
    \E i \in 1..Len(cmdTrace) :
       cmdTrace[i].e = "connect" /\ cmdTrace[i].o # "ok" /\ cmdTrace[i].at = k

\* positions of the executions of command_func in cmdTrace
Executions ==
    { i \in 1..Len(cmdTrace) : cmdTrace[i].e = "op" }

\* positions of the connects in cmdTrace
Connects ==
    { i \in 1..Len(cmdTrace) : cmdTrace[i].e = "connect" }

\* C1: a call whose operation raises in attempts 1 and 2 and returns in attempt 3
\* returns the value the operation returned and leaves the session healthy,
\* whatever the reconnects in between did.
C1_ThirdAttemptSucceeds ==
    (rrc.pc = "done" /\ RaisedAt(0) /\ RaisedAt(1) /\ ReturnedAt(2))
      => /\ roon_connection_healthy = TRUE
         /\ cmdTrace[Len(cmdTrace)].e = "op"
         /\ cmdTrace[Len(cmdTrace)].o = "return"
         /\ rrc.result = cmdTrace[Len(cmdTrace)].r

C1_Witness ==
    /\ rrc.pc = "done"
    /\ RaisedAt(0) /\ RaisedAt(1) /\ ReturnedAt(2)
    /\ ConnectFailedAt(0) /\ ConnectFailedAt(1)
    /\ rrc.op = "_toggle_playback"
    /\ rrc.result = BoolV(TRUE)

\* C2: a call whose operation raises in all 3 attempts returns False, leaves the
\* session unhealthy, and nothing (no connect, no execution) follows the third
\* failure.
C2_AllAttemptsFail ==
    (rrc.pc = "done" /\ RaisedAt(0) /\ RaisedAt(1) /\ RaisedAt(2))
      => /\ rrc.result = BoolV(FALSE)
         /\ roon_connection_healthy = FALSE
         /\ cmdTrace[Len(cmdTrace)] = TraceEntry("op", "raise", 2, NoneV)
         /\ Cardinality(Executions) = 3

C2_Witness ==
    /\ rrc.pc = "done"
    /\ RaisedAt(0) /\ RaisedAt(1) /\ RaisedAt(2)
    /\ roonapi = "authorized"

\* C3: one call executes the operation at most 3 times; an exception in attempt 1
\* or 2 is followed by exactly one setup_roon and then by the next execution,
\* also when that setup_roon failed.
C3_OneReconnectBetweenAttempts ==
    /\ Cardinality(Executions) <= 3
    /\ \A i \in 1..Len(cmdTrace) :
          (cmdTrace[i].e = "op" /\ cmdTrace[i].o = "raise" /\ cmdTrace[i].at < 2)
            => /\ (i + 1 <= Len(cmdTrace) =>
                     /\ cmdTrace[i + 1].e = "connect"
                     /\ cmdTrace[i + 1].at = cmdTrace[i].at)
               /\ (i + 2 <= Len(cmdTrace) =>
                     /\ cmdTrace[i + 2].e = "op"
                     /\ cmdTrace[i + 2].at = cmdTrace[i].at + 1)
               /\ (rrc.pc = "done" => i + 2 <= Len(cmdTrace))

C3_Witness ==
    /\ rrc.pc = "done"
    /\ Len(cmdTrace) = 5
    /\ cmdTrace[1] = TraceEntry("op", "raise", 0, NoneV)
    /\ cmdTrace[2] = TraceEntry("connect", "timeout", 0, NoneV)
    /\ cmdTrace[3] = TraceEntry("op", "raise", 1, NoneV)
    /\ cmdTrace[4] = TraceEntry("connect", "error", 1, NoneV)
    /\ cmdTrace[5].e = "op"

\* C4: a call that starts without a handle connects before it ever executes the
\* operation; after a failed connect with attempts left the loop goes on; and when
\* the connect fails in every attempt the operation is never executed, the call
\* returns False and the session is unhealthy.
C4_ConnectBeforeOperation ==
    rrc.handle0 = "None"
      => /\ (cmdTrace # <<>> => cmdTrace[1].e = "connect" /\ cmdTrace[1].at = 0)
         /\ \A i \in Executions : \E j \in Connects : j < i
         /\ \A k \in 0..1 :
               (rrc.pc = "done" /\ ConnectFailedAt(k) /\ ~RaisedAt(k) /\ ~ReturnedAt(k))
                 => \E i \in 1..Len(cmdTrace) : cmdTrace[i].at = k + 1
         /\ (rrc.pc = "done" /\ \A k \in 0..2 : ConnectFailedAt(k) /\ ~RaisedAt(k))
               => /\ Executions = {}
                  /\ rrc.result = BoolV(FALSE)
                  /\ roon_connection_healthy = FALSE

C4_Witness ==
    /\ rrc.handle0 = "None"
    /\ rrc.pc = "done"
    /\ \A k \in 0..2 : ConnectFailedAt(k)
    /\ Executions = {}
    /\ rrc.result = BoolV(FALSE)

-----------------------------------------------------------------------------
(* Properties of the dispatcher and of the resolver, under Spec *)

\* positions of the set_volume_percent calls in remoteLog
SetVolumeCalls ==
    { i \in 1..Len(remoteLog) : remoteLog[i].op = "set_volume_percent" }

\* positions of the get_volume_percent calls in remoteLog
GetVolumeCalls ==
    { i \in 1..Len(remoteLog) : remoteLog[i].op = "get_volume_percent" }

\* C5: every set_volume_percent call issued to the control service, on any path,
\* carries a value between 0 and 100.
C5_SetVolumeWithinRange ==
    \A i \in SetVolumeCalls : remoteLog[i].n >= 0 /\ remoteLog[i].n <= 100

C5_Witness ==
    /\ handler = "knob"
    /\ event = "rotate_right"
    /\ config.volume_step = 5
    /\ remoteLog = << LogEntry("get_volume_percent", zone_output_id, 98, "", TRUE),
                      LogEntry("set_volume_percent", zone_output_id, 100, "", TRUE) >>

\* C6: with no zone bound, handle_knob_action returns at once for every tag: no
\* robust_roon_command call, no connect, no remote operation, and the session
\* health is left as it was.
C6_NoActionWithoutZone ==
    /\ []((handler = "knob" /\ zone_output_id = "None")
            => (hpc = "done" /\ rrc.pc = "idle" /\ cmdTrace = <<>> /\ remoteLog = <<>>))
    /\ [][(handler = "none" /\ handler' = "knob" /\ zone_output_id = "None")
            => /\ hpc' = "done"
               /\ rrc' = rrc
               /\ roonapi' = roonapi
               /\ roon_connection_healthy' = roon_connection_healthy
               /\ volume' = volume]_vars

C6_Witness ==
    /\ handler = "knob"
    /\ zone_output_id = "None"
    /\ event = "double"
    /\ hpc = "done"
    /\ roon_connection_healthy = FALSE

\* C7: in change_volume, when the current volume is not available (the read gave
\* nothing, or the wrapped read failed), no set_volume_percent call is issued.
C7_NoDeltaOnUnknownVolume ==
    (/\ handler = "knob"
     /\ event \in {"rotate_left", "rotate_right"}
     /\ zone_output_id # "None"
     /\ hpc \in {"cv_set", "done"}
     /\ current.t # "int")
      => /\ hpc = "done"
         /\ SetVolumeCalls = {}
         /\ rrc.op = "_get_volume"

C7_Witness ==
    /\ handler = "knob"
    /\ event = "rotate_right"
    /\ hpc = "done"
    /\ remoteLog = << LogEntry("get_volume_percent", zone_output_id, -1, "", FALSE) >>

\* C8: with a zone bound, a double press issues exactly one
\* set_volume_percent(zone, 50) and a hold exactly one set_volume_percent(zone, 0),
\* whatever the volume and the session state; no read precedes it.
C8_DoubleAndHoldSetOnce ==
    (/\ handler = "knob"
     /\ event \in {"double", "hold"}
     /\ zone_output_id # "None"
     /\ hpc = "done")
      => \E ok \in BOOLEAN :
            remoteLog = << LogEntry("set_volume_percent", zone_output_id,
                                    IF event = "double" THEN 50 ELSE 0, "", ok) >>

C8_Witness ==
    /\ handler = "knob"
    /\ event = "double"
    /\ hpc = "done"
    /\ roonapi = "unauthorized"
    /\ remoteLog = << LogEntry("set_volume_percent", zone_output_id, 50, "", FALSE) >>

\* C9: once an enumeration contains the configured identifier, find_zone_output_id
\* returns that identifier in the same attempt, with no wait and no further
\* enumeration, also when the name matches another output.
C9_IdentifierHasPriority ==
    fz.seenAt # -1
      => /\ fz.attempt = fz.seenAt
         /\ fz.waits = fz.seenAt
         /\ IdEnumerated(enumerated, fz.zone_id)
         /\ (fz.pc = "call" => rrc.pc = "done" /\ rrc.result = IdV(fz.zone_id))
         /\ (fz.pc = "done" => fz.result = IdV(fz.zone_id))

C9_Witness ==
    /\ fz.pc = "done"
    /\ fz.seenAt = 0
    /\ fz.waits = 0
    /\ fz.result = IdV("o1")
    /\ \E i \in 1..Len(enumerated) :
          enumerated[i].id = "o2" /\ enumerated[i].name = fz.zone_name

-----------------------------------------------------------------------------
(* Property of _find_zone, under SpecFindZone *)

\* a occurs in b: b is a, with something before and something after it
IsSubstring(a, b) ==
    \E pre \in Names, suf \in Names : b = pre \o a \o suf

\* the output at position i of the enumeration has a name that is, or contains, zname
NamedLike(i, zname) ==
    enumerated[i].name = zname \/ IsSubstring(zname, enumerated[i].name)

\* C10: with a name, and no enumerated identifier, _find_zone returns the first
\* output in enumeration order whose display name is the name or contains it; a
\* later exact match does not win; without such an output it returns None.
C10_FirstNameMatchWins ==
    (/\ rrc.pc = "done"
     /\ rrc.op = "_find_zone"
     /\ fz.zone_name # <<>>
     /\ \A i \in 1..Len(enumerated) : enumerated[i].id # fz.zone_id)
      => IF \E i \in 1..Len(enumerated) : NamedLike(i, fz.zone_name)
           THEN \E i \in 1..Len(enumerated) :
                   /\ NamedLike(i, fz.zone_name)
                   /\ \A j \in 1..(i - 1) : ~NamedLike(j, fz.zone_name)
                   /\ rrc.result = IdV(enumerated[i].id)
           ELSE rrc.result = NoneV

C10_Witness ==
    /\ rrc.pc = "done"
    /\ fz.zone_id = "None"
    /\ fz.zone_name = <<"K">>
    /\ enumerated = << [id |-> "o1", name |-> <<"K", "D">>],
                       [id |-> "o2", name |-> <<"K">>] >>
    /\ rrc.result = IdV("o1")

-----------------------------------------------------------------------------
(* Properties of the transport callbacks and of the restart, under SpecRestart *)

\* C11: on_mqtt_disconnect leaves mqtt_connected False for every reason code; with a
\* reason code other than 0 the callback makes exactly one reconnect attempt, also
\* when that attempt raises; with reason code 0 it makes none.
C11_ReconnectOnlyOnAbnormalDisconnect ==
    handler = "disconnect"
      => /\ mqtt_connected = FALSE
         /\ cb.reconnects <= 1
         /\ (hpc = "reconnect" => cb.rc # 0 /\ cb.reconnects = 0)
         /\ (hpc = "done" => cb.reconnects = IF cb.rc # 0 THEN 1 ELSE 0)

C11_Witness ==
    /\ handler = "disconnect"
    /\ hpc = "done"
    /\ cb.rc = 7
    /\ cb.reconnects = 1
    /\ link = "down"
    /\ controller_running

\* the step of run_controller that takes the resolver's not-found
RunControllerGotNotFound ==
    /\ handler = "run_controller"
    /\ hpc = "rc_find_zone"
    /\ fz.pc = "done"
    /\ ~Truthy(fz.result)
    /\ hpc' # hpc

\* the step of run_service_mode that takes the resolver's not-found
RunServiceModeGotNotFound ==
    /\ main_pc = "find_zone"
    /\ fz.pc = "done"
    /\ ~Truthy(fz.result)
    /\ main_pc' # main_pc

\* C13: a resolver result of not-found is not fatal for any caller: run_service_mode
\* and run_controller both go on to setup_mqtt with the zone unbound, and
\* run_controller keeps controller_running True.
C13_UnresolvedZoneNeverFatal ==
    [][/\ RunServiceModeGotNotFound
          => (main_pc' = "setup_mqtt" /\ zone_output_id' = "None")
       /\ RunControllerGotNotFound
          => (hpc' = "rc_setup_mqtt" /\ zone_output_id' = "None"
              /\ controller_running')]_vars

\* a step in the code of setup_roon or of robust_roon_command
ControlSessionStep ==
    RRC_Attempt \/ RRC_Exec \/ RRC_Except \/ RC_SetupRoon \/ RSM_SetupRoon

\* a step in the code of setup_mqtt or of a transport callback
TransportSessionStep ==
    \/ RSM_SetupMqtt
    \/ RC_SetupMqtt
    \/ \E rc \in ReasonCodes : OnMqttConnect(rc)
    \/ \E rc \in ReasonCodes : OD_Enter(rc)

\* C19: roon_connection_healthy changes only in a step of the ControlSession code and
\* mqtt_connected only in a step of the TransportSession code; a step of the
\* Supervisor (stop_controller, the health loop) leaves both as they are.
C19_SingleWriterPerFlag ==
    [][/\ roon_connection_healthy' # roon_connection_healthy => ControlSessionStep
       /\ mqtt_connected' # mqtt_connected => TransportSessionStep]_vars

-----------------------------------------------------------------------------
(* Properties of on_mqtt_message and of the health loop, under SpecService *)

\* C12: after a message whose payload is not JSON, or is JSON but not an object,
\* battery, voltage, link quality and last-seen are what they were before the
\* message, and handle_knob_action was not called.
C12_MalformedLeavesTelemetry ==
    cb.payload.kind \in {"invalid", "nonobject"}
      => /\ knob = cb.knob0
         /\ handler = "msg"
         /\ hpc = "done"

\* the message being handled carries at least one of battery, voltage, linkquality
TelemetryBearing ==
    /\ cb.payload.kind = "object"
    /\ \/ cb.payload.battery # Absent
       \/ cb.payload.voltage # Absent
       \/ cb.payload.linkquality # Absent

\* the value a field has when it reflects the message alone
FromMessage(v) ==
    IF v = Absent THEN NoneV ELSE v

\* C18: after a telemetry-bearing message, battery, voltage and link quality are
\* those of that message alone; a field the message does not carry keeps nothing
\* of an earlier message.
C18_TelemetryOverwrittenWholesale ==
    TelemetryBearing
      => /\ knob.battery = FromMessage(cb.payload.battery)
         /\ knob.voltage = FromMessage(cb.payload.voltage)
         /\ knob.linkquality = FromMessage(cb.payload.linkquality)

\* C17: no failure ends the health loop or a message callback: the loop leaves
\* "running" only once controller_running is False (a stop was requested), a
\* reconnect that raised and a payload that did not decode leave it running, and
\* the callback of such a payload ends normally.
C17_LoopsSurviveFailures ==
    /\ [](main_pc \in {"running", "exited"})
    /\ [](handler = "msg" => hpc = "done")
    /\ [][/\ (main_pc = "running" /\ main_pc' # "running") => ~controller_running'
          /\ (ctl'.tick = "failed" /\ ctl.pc = "sleep" /\ ctl'.pc = "backoff")
               => main_pc' = "running"
          /\ (cb'.payload.kind \in {"invalid", "nonobject"} /\ cb' # cb)
               => (main_pc' = "running" /\ handler' = "msg")]_vars

C17_Witness ==
    /\ main_pc = "running"
    /\ controller_running
    /\ ctl.tick = "failed"
    /\ ~mqtt_connected
    /\ now = 1
    /\ knob.last_seen = NoneV

-----------------------------------------------------------------------------
(* Properties of the startup chain and of the health flag, under Spec *)

\* C14: in run_service_mode setup_mqtt is attempted only after setup_roon returned
\* success; when setup_roon or setup_mqtt fails the method has returned False with
\* controller_running False, for good, and the loop is never entered;
\* controller_running is True only after both succeeded.
C14_StartupIsStrictChain ==
    /\ [](controller_running => main_pc = "running" /\ mqtt_client = "client")
    /\ [](main_pc = "returned_false" => ~controller_running)
    /\ [](mqtt_client # "None" => main_pc \in {"running", "returned_false"})
    /\ [][/\ (main_pc = "setup_roon" /\ main_pc' # main_pc)
               => IF roon_connection_healthy' /\ roonapi' = "authorized"
                    THEN main_pc' = "find_zone" /\ mqtt_client' = "None"
                    ELSE main_pc' = "returned_false" /\ mqtt_client' = "None"
          /\ (main_pc' = "setup_mqtt" /\ main_pc # main_pc')
               => main_pc \in {"find_zone", "init_volume"}
          /\ (main_pc = "setup_mqtt" /\ main_pc' # main_pc)
               => IF mqtt_connected'
                    THEN main_pc' = "running" /\ controller_running'
                    ELSE main_pc' = "returned_false" /\ ~controller_running'
          /\ main_pc = "returned_false" => main_pc' = "returned_false"]_vars

C14_Witness ==
    /\ main_pc = "returned_false"
    /\ roonapi = "authorized"
    /\ mqtt_client = "client"
    /\ link = "connecting"
    /\ ~mqtt_connected
    /\ ~controller_running

\* C20: a call whose remote operation failed ends with roon_connection_healthy
\* False: when get_volume_percent, set_volume_percent or the last playback_control
\* of the call did not succeed, the session is not marked healthy.
C20_HealthTracksOutcome ==
    (/\ rrc.pc = "done"
     /\ rrc.op \in {"_get_volume", "_set_volume", "_toggle_playback"}
     /\ remoteLog # <<>>
     /\ ~remoteLog[Len(remoteLog)].ok)
      => roon_connection_healthy = FALSE

-----------------------------------------------------------------------------
(* Properties of the readiness poll of setup_roon, under SpecSetupRoon *)

\* C15: while setup_roon waits, the authorization prompt is printed once, at
\* elapsed wait 0, and no message is printed at an elapsed wait that is not a
\* multiple of 30 s, whatever the polls failed for.
C15_PromptThrottled ==
    /\ sr.prompts <= 1
    /\ (sr.waited_time > 0 => sr.prompts = 1)
    /\ ~sr.offbeat

\* C16: setup_roon polls at most 300/5 = 60 times and never waits past 300 s; after
\* a timeout or an exception it has returned False with roon_connection_healthy
\* False; it returns True only from a poll that found zones and outputs.
C16_SetupRoonTerminates ==
    /\ sr.polls <= max_wait_time \div check_interval
    /\ sr.waited_time <= max_wait_time
    /\ sr.waited_time = check_interval * (sr.polls - IF sr.ready THEN 1 ELSE 0)
    /\ (sr.pc = "poll" => sr.result = "none")
    /\ (sr.pc = "done" =>
          /\ sr.result \in {"ok", "timeout", "error"}
          /\ (sr.result \in {"timeout", "error"} => roon_connection_healthy = FALSE)
          /\ (sr.result = "timeout" => sr.polls = max_wait_time \div check_interval)
          /\ (sr.result = "ok" => sr.ready /\ roon_connection_healthy
                                           /\ roonapi = "authorized"))

C16_Witness ==
    /\ sr.pc = "done"
    /\ sr.result = "timeout"
    /\ sr.polls = 60
    /\ sr.waited_time = 300
    /\ roon_connection_healthy = FALSE
    /\ roonapi = "unauthorized"

-----------------------------------------------------------------------------
(* Properties of the volume commands and the rotations, under Spec *)

\* C21: when get_volume_percent or set_volume_percent raised in an attempt of a
\* call, the same operation is attempted again: a finished volume call whose last
\* remote operation raised has made all three attempts, and nothing crashed.
C21_VolumeFailureRetried ==
    /\ main_pc # "crashed"
    /\ (/\ rrc.pc = "done"
        /\ rrc.op \in {"_get_volume", "_set_volume"}
        /\ remoteLog # <<>>
        /\ ~remoteLog[Len(remoteLog)].ok)
         => Cardinality(Executions) = max_retries

\* C22: with a zone bound, a positive step and the current volume c read, a
\* rotation issues exactly one get_volume_percent followed by exactly one
\* set_volume_percent on the bound output, with the value c + step (rotate_right)
\* or c - step (rotate_left) limited to 0..100.
C22_RotationIsClampedStep ==
    (/\ handler = "knob"
     /\ event \in {"rotate_left", "rotate_right"}
     /\ hpc = "done"
     /\ zone_output_id # "None"
     /\ config.volume_step > 0
     /\ current.t = "int")
      => LET c == current.n
             target == IF event = "rotate_right" THEN c + config.volume_step
                                                 ELSE c - config.volume_step
             clamped == IF target < 0 THEN 0 ELSE IF target > 100 THEN 100 ELSE target
         IN  /\ Len(remoteLog) = 2
             /\ remoteLog[1].op = "get_volume_percent"
             /\ remoteLog[1].id = zone_output_id
             /\ remoteLog[1].n = c
             /\ remoteLog[2].op = "set_volume_percent"
             /\ remoteLog[2].id = zone_output_id
             /\ remoteLog[2].n = clamped

C22_Witness ==
    /\ handler = "knob"
    /\ event = "rotate_right"
    /\ hpc = "done"
    /\ current = IntV(98)
    /\ config.volume_step = MaxStep
    /\ Len(remoteLog) = 2
    /\ remoteLog[2].n = 100
    /\ remoteLog[2].ok

-----------------------------------------------------------------------------
(* Properties of toggle_playback, under Spec *)

\* positions of the groups of the last enumeration that contain the bound output
GroupsWithBoundOutput ==
    { i \in 1..Len(enumerated) : zone_output_id \in enumerated[i].outs }

\* positions of the play and pause verbs in remoteLog
PrimaryVerbCalls ==
    { k \in 1..Len(remoteLog) :
        remoteLog[k].op = "playback_control" /\ remoteLog[k].verb \in {"play", "pause"} }

\* a toggle_playback call has finished
ToggleFinished ==
    /\ handler = "knob"
    /\ event = "single"
    /\ rrc.pc = "done"
    /\ rrc.op = "_toggle_playback"

\* C23: a single press acts on the first enumerated group that contains the bound
\* output: the first remote call is pause when that group is playing and play in
\* every other state, and it is the only play or pause of the press.
C23_ToggleActsOnFirstGroup ==
    (ToggleFinished /\ GroupsWithBoundOutput # {})
      => \E i \in GroupsWithBoundOutput :
            /\ \A j \in GroupsWithBoundOutput : i <= j
            /\ PrimaryVerbCalls = {1}
            /\ remoteLog[1].id = enumerated[i].id
            /\ remoteLog[1].verb = CASE enumerated[i].state = "playing" -> "pause"
                                     [] enumerated[i].state = "paused"  -> "play"
                                     [] OTHER                           -> "play"

C23_Witness ==
    /\ ToggleFinished
    /\ zone_output_id = "o1"
    /\ Len(enumerated) = 2
    /\ "o1" \notin enumerated[1].outs
    /\ enumerated[2].state = "playing"
    /\ remoteLog = <<LogEntry("playback_control", "z2", 0, "pause", TRUE)>>

\* C24: when the play or pause of a single press fails, playpause is issued once
\* to the same group and the press succeeds exactly if playpause does; when no
\* enumerated group contains the bound output the press fails without any
\* playback_control call.
C24_FallbackOnceThenReport ==
    ToggleFinished
      => IF GroupsWithBoundOutput = {}
           THEN remoteLog = <<>> /\ rrc.result = BoolV(FALSE)
           ELSE \/ /\ Len(remoteLog) = 1
                   /\ remoteLog[1].ok
                   /\ rrc.result = BoolV(TRUE)
                \/ /\ Len(remoteLog) = 2
                   /\ ~remoteLog[1].ok
                   /\ remoteLog[2].op = "playback_control"
                   /\ remoteLog[2].verb = "playpause"
                   /\ remoteLog[2].id = remoteLog[1].id
                   /\ rrc.result = BoolV(remoteLog[2].ok)

C24_Witness ==
    /\ ToggleFinished
    /\ Len(remoteLog) = 2
    /\ ~remoteLog[1].ok
    /\ remoteLog[2].verb = "playpause"
    /\ remoteLog[2].ok
    /\ rrc.result = BoolV(TRUE)

-----------------------------------------------------------------------------
(* Properties of find_zone_output_id and of the initial volume, under Spec *)

\* C25: find_zone_output_id(retries = N) makes at most N attempts, each a
\* robust_roon_command call of _find_zone; it waits once between two attempts and
\* not after the last; it returns the match of the first attempt that has one, and
\* returns None, without a crash, when all N attempts miss or fail.
C25_ResolverBounded ==
    /\ [](fz.pc = "call"
            => /\ fz.attempt < fz.retries
               /\ fz.waits = fz.attempt
               /\ rrc.op = "_find_zone"
               /\ rrc.pc # "idle"
               /\ Cardinality(Executions) <= max_retries)
    /\ [](main_pc # "crashed")
    /\ [][(fz.pc = "call" /\ fz' # fz /\ rrc.pc = "done")
            => IF rrc.result.t = "id"
                 THEN /\ fz'.pc = "done"
                      /\ fz'.result = rrc.result
                      /\ fz'.waits = fz.waits
                 ELSE IF fz.attempt + 1 < fz.retries
                   THEN /\ fz'.pc = "call"
                        /\ fz'.attempt = fz.attempt + 1
                        /\ fz'.waits = fz.waits + 1
                   ELSE /\ fz'.pc = "done"
                        /\ fz'.result = NoneV
                        /\ fz'.waits = fz.retries - 1]_vars

C25_Witness ==
    /\ fz.pc = "done"
    /\ fz.retries = service_retries
    /\ fz.result = NoneV
    /\ fz.attempt = service_retries - 1
    /\ fz.waits = service_retries - 1

\* C26: at startup no volume call is made before the zone lookup has returned;
\* set_volume is called only with a zone bound, with the configured volume and
\* before the broker connection is set up; when the connection is set up the
\* control service has received exactly one set_volume_percent if a zone was bound
\* and a volume is configured, and none otherwise.
C26_InitialVolumeIffZoneBound ==
    /\ main_pc \in {"setup_roon", "find_zone"} => remoteLog = <<>>
    /\ main_pc = "init_volume"
         => /\ zone_output_id # "None"
            /\ rrc.op = "_set_volume"
            /\ rrc.arg = config.volume.n
            /\ mqtt_client = "None"
    /\ main_pc = "setup_mqtt"
         => /\ mqtt_client = "None"
            /\ IF zone_output_id # "None" /\ config.volume.t # "None"
                 THEN /\ Len(remoteLog) = 1
                      /\ remoteLog[1].op = "set_volume_percent"
                      /\ remoteLog[1].id = zone_output_id
                      /\ remoteLog[1].n = Max2(0, Min2(100, config.volume.n))
                 ELSE remoteLog = <<>>

C26_Witness ==
    /\ main_pc = "setup_mqtt"
    /\ zone_output_id = "o1"
    /\ config.volume = IntV(15)
    /\ remoteLog = <<LogEntry("set_volume_percent", "o1", 15, "", TRUE)>>

-----------------------------------------------------------------------------
(* The health loop and the broker connection alone, with the scheduling the      *)
(* threads give: the loop of run_service_mode keeps ticking (line 1145) and the  *)
(* network thread started by loop_start (line 437) runs the callbacks it is due  *)

NextHealth ==
    \/ \E rc \in ReasonCodes : OnMqttConnect(rc)
    \/ \E rc \in ReasonCodes : OD_Enter(rc)
    \/ OD_Reconnect
    \/ HealthTick
    \/ HealthLoopTest
    \/ SignalHandler
    \/ H_Return

SpecHealth ==
    /\ InitService
    /\ [][NextHealth]_vars
    /\ WF_vars(HealthTick)
    /\ WF_vars(HealthLoopTest)
    /\ WF_vars(\E rc \in ReasonCodes : OnMqttConnect(rc))
    /\ WF_vars(OD_Reconnect)
    /\ WF_vars(H_Return)

\* the controller is running and its health loop is alive
LoopRunning ==
    main_pc = "running" /\ controller_running

\* a step in which the broker shows unreachable: a reconnect of the health loop
\* fails, a connect is refused or its subscribe fails, or the connection is lost
BrokerFails ==
    \/ ctl'.tick = "failed" /\ ctl.pc = "sleep" /\ ctl'.pc = "backoff"
    \/ link = "connecting" /\ link' \in {"down", "acked"} /\ controller_running'
    \/ link \in {"up", "acked"} /\ link' = "down"

\* C27: while the controller runs, a tick of the health loop attempts a reconnect
\* exactly if mqtt_connected is False, and leaves the control session alone; when
\* the loop last saw the transport connected and it is now disconnected, a
\* reconnect is eventually attempted; and if from some point on the broker never
\* fails, a disconnected transport eventually has mqtt_connected True again
\* (unless the controller is stopped first).
C27_HealthLoopReconnects ==
    /\ [][(HealthTick /\ controller_running)
            => /\ (ctl'.tick \in {"reconnected", "failed"}) <=> ~mqtt_connected
               /\ UNCHANGED <<roonapi, roon_connection_healthy, zone_output_id, rrc,
                              cmdTrace, remoteLog>>]_vars
    /\ (LoopRunning /\ ~mqtt_connected /\ ctl.tick = "idle")
         ~> (ctl.tick \in {"reconnected", "failed"} \/ mqtt_connected \/ ~LoopRunning)
    /\ (<>[][~BrokerFails]_vars)
         => ((LoopRunning /\ ~mqtt_connected) ~> (mqtt_connected \/ ~LoopRunning))

C27_Witness ==
    /\ LoopRunning
    /\ mqtt_connected
    /\ link = "up"
    /\ ctl.tick = "reconnected"

-----------------------------------------------------------------------------
(* Properties of the connection state of the transport, under SpecService *)

-----------------------------------------------------------------------------
(* Properties of the message callback, under SpecService *)

\* the value a telemetry field has after a message that may carry v
AppliedField(old, v) ==
    IF v = Absent THEN old ELSE v

-----------------------------------------------------------------------------
(* Properties of the shutdown, under SpecRestart *)

\* a robust_roon_command call is in progress
CommandInFlight ==
    rrc.pc \notin {"idle", "done"}

\* C30: a stop leaves controller_running False and the broker connection asked to
\* close; the health loop ends when its next test finds the flag False; and
\* the process never ends while a remote command is in flight.
C30_ShutdownCooperative ==
    /\ [][(controller_running /\ ~controller_running' /\ handler' # "run_controller")
            => (~mqtt_connected' /\ link' \notin {"up", "acked"})]_vars
    /\ [][((HealthLoopTest \/ (HealthTick /\ ~ReconnectDue)) /\ ~controller_running)
            => main_pc' = "exited"]_vars
    /\ [][(main_pc = "running" /\ main_pc' # "running") => ~CommandInFlight]_vars

-----------------------------------------------------------------------------
(* Properties of the control session as a whole, under Spec and SpecCall *)

\* C31: every operation on the control service after the handshake runs inside a
\* robust_roon_command call: a step in which the service receives a volume or
\* playback operation, returns an enumeration or changes the volume is a step of
\* command_func at line 127 of a call in progress, recorded as an execution of it.
C31_SingleChokePoint ==
    [][(\/ remoteLog' # remoteLog /\ remoteLog' # <<>>
        \/ enumerated' # enumerated /\ enumerated' # <<>>
        \/ volume' # volume)
         => /\ rrc.pc = "exec"
            /\ rrc.op \in Ops
            /\ rrc'.op = rrc.op
            /\ Len(cmdTrace') = Len(cmdTrace) + 1
            /\ cmdTrace'[Len(cmdTrace')].e = "op"]_vars

C31_Witness ==
    /\ handler = "web_zones"
    /\ rrc.pc = "done"
    /\ rrc.op = "_get_zones"
    /\ Len(enumerated) = 2
    /\ rrc.result = ListV(2)
    /\ volume # 15
    /\ volume # 98

\* C32: robust_roon_command runs command_func only on a handle that a successful
\* setup_roon produced: when an operation is about to execute, self.roonapi is an
\* authorized handle, never the one a timed-out setup_roon left behind.
C32_ExecutesOnAuthorizedHandle ==
    rrc.pc = "exec" => roonapi = "authorized"

-----------------------------------------------------------------------------
(* Properties of the threads around a stop and a reconfiguration, under SpecRestart *)

\* stop_controller has run for a reconfiguration and the controller is not started
\* again yet (the pause of line 944)
Stopped ==
    /\ handler = "api_config"
    /\ hpc = "sleep"

\* a step in which the health loop calls mqtt_client.reconnect()
LoopReconnects ==
    /\ ctl.pc = "sleep"
    /\ ctl'.pc = "backoff"

\* a step in which on_mqtt_disconnect calls client.reconnect()
CallbackReconnects ==
    cb'.reconnects = cb.reconnects + 1

\* C33: once stop_controller has run, neither the health loop nor the disconnect
\* callback calls reconnect, and mqtt_connected stays False.
C33_NoReconnectAfterStop ==
    /\ [](Stopped => ~mqtt_connected)
    /\ [][Stopped => (~LoopReconnects /\ ~CallbackReconnects /\ ~mqtt_connected')]_vars

\* C34: the disconnect callback and the health loop never have two reconnects
\* outstanding: neither calls reconnect while a reconnect issued before is still
\* waiting for its acknowledgement.  (Checked under SpecService.)
C34_OneReconnectPerDrop ==
    [][(LoopReconnects \/ CallbackReconnects) => link # "connecting"]_vars

\* C35: a reconfiguration of the running controller never makes the health loop of
\* run_service_mode end: whatever the interleaving of stop_controller, the pause and
\* the new run_controller with the loop, a step of the loop leaves it running.
C35_ReconfigurationKeepsLoop ==
    [][(HealthTick \/ HealthLoopTest) => main_pc' = "running"]_vars

\* C36: at most one client is connected and subscribed to the device topic at any
\* time, also after a reconfiguration has replaced the client.
C36_OneSubscribedClient ==
    ~(link = "up" /\ ctl.old = "up")

=============================================================================
